---- MODULE Spec2Model ----
(***************************************************************************)
(* Model of the Porsche 993 assistant: the retrieval-augmented answer      *)
(* pipeline of src/api/chat.py (rewrite_follow_up, search, ask,            *)
(* ask_stream, the parts helpers), the conversation store of               *)
(* src/api/chat_store.py and the chat session of src/ui/app.py.            *)
(*                                                                         *)
(* Text is modelled by TLA+ strings, character by character: Len, \o and   *)
(* SubSeq are the Python len, + and slicing.  The source holds a few       *)
(* non-ASCII glyphs in its literals (an emoji before "Order Parts" and     *)
(* "Sources:", a dash between a title and its URL, a dot between supplier  *)
(* links); each such character is written "~" here, one "~" per character  *)
(* of the source literal, so lengths and word boundaries are kept.         *)
(***************************************************************************)
EXTENDS Integers, Sequences, FiniteSets, TLC

VARIABLES
    mode,             \* "ui", "session", "faulty_session": a Streamlit session (the last
                      \* over a store whose calls can fail); "api": callers of ask /
                      \* ask_stream; "fn": a call of one helper function; "profile":
                      \* sessions of one user over the onboarding and edit forms;
                      \* "requests": threads of one process that run search();
                      \* "two_sessions": two sessions of one user over one store;
                      \* "long_conversation": a session on a stored conversation
                      \* longer than the history window
    api_key,          \* os.getenv("ANTHROPIC_API_KEY"); "" when unset
    car_profile,      \* st.session_state.car_profile
    show_edit_profile, \* st.session_state.show_edit_profile
    s3_profile,       \* object users/{user}/profile.json, None when there is none
    _index,           \* module global _index of api.chat: the instance, 0 for None
    _hf_client,       \* module global _hf_client of api.chat: the instance, 0 for None
    constructed,      \* how many instances of each were constructed in the process
    requests,         \* the threads that run search(): where each is, its locals
    other_session,    \* st.session_state of a second session of the user, if any
    messages,         \* st.session_state.messages
    conv_index,       \* st.session_state.conv_index
    current_conv_id,  \* st.session_state.current_conv_id
    confirm_delete,   \* st.session_state.confirm_delete
    editing_conv_id,  \* st.session_state.editing_conv_id
    s3_index,         \* object users/{user}/chats/index.json
    s3_convs,         \* objects users/{user}/chats/{id}.json, by id
    s3_images,        \* keys of the objects users/{user}/images/{uuid}.jpg
    uuid_ctr,         \* number of ids new_conversation_id has handed out
    clock,            \* datetime.now(), in ticks
    last,             \* record of the last answer turn: inputs, external calls, result
    fn                \* record of the last application of a helper function

vars == <<mode, api_key, car_profile, show_edit_profile, s3_profile, _index, _hf_client,
          constructed, requests, other_session, messages,
          conv_index, current_conv_id, confirm_delete, editing_conv_id, s3_index, s3_convs,
          s3_images, uuid_ctr, clock, last, fn>>

sessionVars == <<messages, conv_index, current_conv_id, confirm_delete, editing_conv_id,
                 s3_index, s3_convs, s3_images, uuid_ctr, clock>>

processVars == <<_index, _hf_client, constructed, requests>>

envVars == <<mode, api_key, car_profile, show_edit_profile, s3_profile, processVars,
            other_session>>

None == "None"

\* the user has one session
NoSession == [absent |-> TRUE]

\* _index = None, _hf_client = None (src/api/chat.py): no instance yet
NO_INSTANCE == 0

\* the process after the import of api.chat: nothing constructed, no request running
ColdProcess ==
    /\ _index = NO_INSTANCE
    /\ _hf_client = NO_INSTANCE
    /\ constructed = [g \in {"_index", "_hf_client"} |-> 0]
    /\ requests = <<>>

(***************************************************************************)
(* Python string and list primitives                                       *)
(***************************************************************************)
Min(a, b) == IF a < b THEN a ELSE b

Max(a, b) == IF a > b THEN a ELSE b

Range(s) == {s[i] : i \in DOMAIN s}

Char(s, i) == SubSeq(s, i, i)

\* s[:n] for n >= 0
Take(s, n) == SubSeq(s, 1, Min(n, Len(s)))

\* s[lo:hi] with the negative indices of Python counted from the end
PySlice(s, lo, hi) ==
    LET n == Len(s)
        a == IF lo < 0 THEN Max(n + lo, 0) ELSE Min(lo, n)
        b == IF hi < 0 THEN Max(n + hi, 0) ELSE Min(hi, n)
    IN  SubSeq(s, a + 1, b)

Digits == {"0", "1", "2", "3", "4", "5", "6", "7", "8", "9"}

Letters == {"a", "b", "c", "d", "e", "f", "g", "h", "i", "j", "k", "l", "m",
            "n", "o", "p", "q", "r", "s", "t", "u", "v", "w", "x", "y", "z",
            "A", "B", "C", "D", "E", "F", "G", "H", "I", "J", "K", "L", "M",
            "N", "O", "P", "Q", "R", "S", "T", "U", "V", "W", "X", "Y", "Z"}

\* \w of the re module
WordChars == Digits \cup Letters \cup {"_"}

IsWord(c) == c \in WordChars

SetMin(S) == CHOOSE x \in S : \A y \in S : x <= y

SetMax(S) == CHOOSE x \in S : \A y \in S : x >= y

\* str.strip(chars): s without its leading and trailing characters of chars
StripChars(s, chars) ==
    LET n     == Len(s)
        lead  == Cardinality({i \in 1..n : \A j \in 1..i : Char(s, j) \in chars})
        trail == Cardinality({i \in 1..n : \A j \in i..n : Char(s, j) \in chars})
    IN  IF lead = n THEN "" ELSE SubSeq(s, lead + 1, n - trail)

\* str.strip()
Strip(s) == StripChars(s, {" ", "\n", "\t", "\r"})

\* str.replace(old, new) for a one-character old
RECURSIVE Replace(_, _, _)
Replace(s, old, new) ==
    IF Len(s) = 0 THEN ""
    ELSE IF Len(s) = 1 THEN (IF s = old THEN new ELSE s)
    ELSE LET h == Len(s) \div 2
         IN  Replace(SubSeq(s, 1, h), old, new) \o Replace(SubSeq(s, h + 1, Len(s)), old, new)

\* sep.join(parts)
RECURSIVE Join(_, _)
Join(sep, parts) ==
    IF Len(parts) = 0 THEN ""
    ELSE IF Len(parts) = 1 THEN parts[1]
    ELSE parts[1] \o sep \o Join(sep, Tail(parts))

\* s * n
RECURSIVE Repeat(_, _)
Repeat(s, n) ==
    IF n <= 0 THEN ""
    ELSE IF n = 1 THEN s
    ELSE Repeat(s, n \div 2) \o Repeat(s, n - n \div 2)

\* template.format(arg): the first "{}" field of the template replaced by arg
Format(template, arg) ==
    LET fields == {i \in 1..(Len(template) - 1) : SubSeq(template, i, i + 1) = "{}"}
    IN  IF fields = {} THEN template
        ELSE LET i == SetMin(fields)
             IN  SubSeq(template, 1, i - 1) \o arg \o SubSeq(template, i + 2, Len(template))

\* every ordering of a finite set: the lists list(set(...)) may build
Orderings(S) ==
    {f \in [1..Cardinality(S) -> S] : \A i, j \in 1..Cardinality(S) : f[i] = f[j] => i = j}

(***************************************************************************)
(* Parts helpers (src/api/chat.py)                                         *)
(***************************************************************************)
PART_NUMBER_LEN == 14

\* the groups of PART_NUMBER_RE: \d{3}[\.\-]\d{3}[\.\-]\d{3}[\.\-]\d{2}
PartPattern == <<"d", "d", "d", "s", "d", "d", "d", "s", "d", "d", "d", "s", "d", "d">>

PartCharOk(kind, c) == IF kind = "d" THEN c \in Digits ELSE c \in {".", "-"}

\* PART_NUMBER_RE matches at position i: \b, the 14 pattern characters, \b
PART_NUMBER_RE(s, i) ==
    /\ i + PART_NUMBER_LEN - 1 <= Len(s)
    /\ \A k \in 1..PART_NUMBER_LEN : PartCharOk(PartPattern[k], Char(s, i + k - 1))
    /\ (i = 1 \/ ~IsWord(Char(s, i - 1)))
    /\ (i + PART_NUMBER_LEN > Len(s) \/ ~IsWord(Char(s, i + PART_NUMBER_LEN)))

\* the scan of findall from position i over the positions where the pattern matches:
\* the leftmost match from i, then the scan goes on behind it
RECURSIVE FindFrom(_, _, _)
FindFrom(s, hits, i) ==
    LET ahead == {j \in hits : j >= i}
    IN  IF ahead = {} THEN <<>>
        ELSE LET j == SetMin(ahead)
             IN  <<SubSeq(s, j, j + PART_NUMBER_LEN - 1)>>
                 \o FindFrom(s, hits, j + PART_NUMBER_LEN)

\* PART_NUMBER_RE.findall(text)
FindAll(s) == FindFrom(s, {j \in 1..Len(s) : PART_NUMBER_RE(s, j)}, 1)

\* list(set(findall(text))): the distinct matches, in an order the hash seed decides;
\* the set of lists the call may return
extract_part_numbers(text) == Orderings(Range(FindAll(text)))

PARTS_SUPPLIERS ==
    << <<"Pelican Parts", "https://www.pelicanparts.com/cgi-bin/smart_search.cgi?keywords={}">>,
       <<"FCP Euro", "https://www.fcpeuro.com/parts?keyword={}">>,
       <<"Design 911", "https://www.design911.co.uk/search/?q={}">> >>

SupplierLink(supplier, pn_clean) ==
    "[" \o supplier[1] \o "](" \o Format(supplier[2], pn_clean) \o ")"

PartsLine(pn_clean) ==
    "- **" \o pn_clean \o "**: "
    \o Join(" ~~ ", [k \in 1..Len(PARTS_SUPPLIERS) |-> SupplierLink(PARTS_SUPPLIERS[k], pn_clean)])

\* a variant that keeps the dashes
PartCleanKeepingDashes(pn) == Strip(pn)

PartClean(pn) == Strip(Replace(pn, "-", "."))

\* the loop of generate_parts_links from item i on, with the lines and the seen set so far
RECURSIVE PartsLoop(_, _, _, _)
PartsLoop(part_numbers, i, lines, seen) ==
    IF i > Len(part_numbers) THEN lines
    ELSE LET pn_clean == PartClean(part_numbers[i])
         IN  IF pn_clean \in seen
             THEN PartsLoop(part_numbers, i + 1, lines, seen)
             ELSE PartsLoop(part_numbers, i + 1, Append(lines, PartsLine(pn_clean)),
                            seen \cup {pn_clean})

PartsHeader == "\n\n---\n**~~~~ Order Parts**"

generate_parts_links(part_numbers) ==
    IF Len(part_numbers) = 0 THEN ""
    ELSE Join("\n", PartsLoop(part_numbers, 1, <<PartsHeader>>, {}))

(***************************************************************************)
(* Conversation turns and language-model outcomes                          *)
(***************************************************************************)
\* a turn as the UI appends it (src/ui/app.py): {"role": ..., "content": ...}
Turn(role, content) == [role |-> role, content |-> content]

\* a turn that carries image references
ImageTurn(role, content, images) == [role |-> role, content |-> content, images |-> images]

\* msg.get("images"): the empty list stands for a missing key, both are falsy
Images(msg) == IF "images" \in DOMAIN msg THEN msg.images ELSE <<>>

PLACEHOLDER_KEY == "your_anthropic_api_key_here"

\* classes of the exceptions a language-model call and the reading of its response raise
ApiErrors == {"APITimeoutError", "AuthenticationError"}

PyExceptions == ApiErrors \cup {"IndexError", "AttributeError"}

\* what client.messages.create does: it raises, or returns a response whose content is
\* an empty list, a block without text, or a text block
LlmKinds == {"timeout", "auth_error", "empty_content", "no_text", "text"}

LlmOutcome(kind, text) == [kind |-> kind, text |-> text]

\* the exception that reading response.content[0].text of an outcome raises, or None
LlmException(llm) ==
    CASE llm.kind = "timeout"       -> "APITimeoutError"
      [] llm.kind = "auth_error"    -> "AuthenticationError"
      [] llm.kind = "empty_content" -> "IndexError"
      [] llm.kind = "no_text"       -> "AttributeError"
      [] OTHER                      -> None

(***************************************************************************)
(* rewrite_follow_up (src/api/chat.py)                                     *)
(***************************************************************************)
REWRITE_RECENT == 4

ASSISTANT_CUT == 300

REWRITE_MAX_LEN == 500

REWRITE_MODEL == "claude-haiku-4-20250414"

\* one line of the transcript
RewriteLine(msg) ==
    LET role == IF msg.role = "user" THEN "User" ELSE "Assistant"
        c1 == IF role = "User" /\ Len(Images(msg)) > 0
              THEN msg.content \o " [attached " \o ToString(Len(Images(msg))) \o " photo(s)]"
              ELSE msg.content
        c2 == IF role = "Assistant" /\ Len(c1) > ASSISTANT_CUT
              THEN Take(c1, ASSISTANT_CUT) \o "..."
              ELSE c1
    IN  role \o ": " \o c2

\* a variant that takes the first 4 turns of the history
RewriteTranscriptFromStart(conversation_history) ==
    LET recent == PySlice(conversation_history, 0, REWRITE_RECENT)
    IN  Join("\n", [i \in 1..Len(recent) |-> RewriteLine(recent[i])])

\* conv_text: the last 4 turns, one line each
RewriteTranscript(conversation_history) ==
    LET recent == PySlice(conversation_history, -REWRITE_RECENT, Len(conversation_history))
    IN  Join("\n", [i \in 1..Len(recent) |-> RewriteLine(recent[i])])

RewriteRequest(prompt, conversation_history) ==
    [call |-> "messages.create", model |-> REWRITE_MODEL, max_tokens |-> 150,
     content |->
        "Rewrite this follow-up question into a standalone search query that includes the necessary context from the conversation. The query should work for searching a Porsche 993 forum knowledge base.\n\nCONVERSATION:\n"
        \o RewriteTranscript(conversation_history)
        \o "\n\nFOLLOW-UP QUESTION: " \o prompt
        \o "\n\nWrite ONLY the rewritten search query, nothing else. If the question is already self-contained, return it unchanged."]

\* a variant of the sanity check that admits a rewrite of exactly 500 characters
RewriteAcceptedInclusive(rewritten) == rewritten # "" /\ Len(rewritten) <= REWRITE_MAX_LEN

\* the sanity check on the rewritten text
RewriteAccepted(rewritten) == rewritten # "" /\ Len(rewritten) < REWRITE_MAX_LEN

\* the body of the try block: it raises exc, or returns value, or falls through
RewriteTry(llm) ==
    IF LlmException(llm) # None
    THEN [exc |-> LlmException(llm), returned |-> FALSE, value |-> ""]
    ELSE LET rewritten == Strip(llm.text)
         IN  IF RewriteAccepted(rewritten)
             THEN [exc |-> None, returned |-> TRUE, value |-> rewritten]
             ELSE [exc |-> None, returned |-> FALSE, value |-> ""]

\* a variant that catches the errors of the API client only (except anthropic.APIError)
RewriteCatchesApiErrors(exc) == exc \in ApiErrors

\* except Exception: every exception class of the call is caught
RewriteCatches(exc) == exc \in PyExceptions

\* a variant of rewrite_follow_up without the return on an empty history
rewrite_every_question(prompt, conversation_history, key, llm) ==
    IF key = ""
    THEN [raised |-> None, value |-> prompt, calls |-> <<>>]
    ELSE LET t == RewriteTry(llm)
             req == <<RewriteRequest(prompt, conversation_history)>>
         IN  IF t.exc # None /\ ~RewriteCatches(t.exc)
             THEN [raised |-> t.exc, value |-> "", calls |-> req]
             ELSE IF t.returned
             THEN [raised |-> None, value |-> t.value, calls |-> req]
             ELSE [raised |-> None, value |-> prompt, calls |-> req]

\* [raised: the exception that leaves the function or None, value: the string returned,
\*  calls: the language-model requests issued]
rewrite_follow_up(prompt, conversation_history, key, llm) ==
    IF Len(conversation_history) = 0
    THEN [raised |-> None, value |-> prompt, calls |-> <<>>]
    ELSE IF key = ""
    THEN [raised |-> None, value |-> prompt, calls |-> <<>>]
    ELSE LET t == RewriteTry(llm)
             req == <<RewriteRequest(prompt, conversation_history)>>
         IN  IF t.exc # None /\ ~RewriteCatches(t.exc)
             THEN [raised |-> t.exc, value |-> "", calls |-> req]
             ELSE IF t.returned
             THEN [raised |-> None, value |-> t.value, calls |-> req]
             ELSE [raised |-> None, value |-> prompt, calls |-> req]

(***************************************************************************)
(* Retrieval: _embed_query, search, build_context (src/api/chat.py)        *)
(***************************************************************************)
TOP_K == 15

EMBEDDING_MODEL == "sentence-transformers/all-MiniLM-L6-v2"

\* dict.get(key, default)
Get(d, key, default) == IF key \in DOMAIN d THEN d[key] ELSE default

\* what feature_extraction does: "ok", or it raises with ("unauthorized") or without
\* ("error") a 401 in its message
EmbedKinds == {"ok", "unauthorized", "error"}

\* the exception _embed_query raises, or None
EmbedException(emb) ==
    CASE emb = "unauthorized" -> "RuntimeError"
      [] emb = "error"        -> "HfHubHTTPError"
      [] OTHER                -> None

\* the vector of a text: the embedding is a function of the text alone
Embedding(text) == <<"vector", text>>

\* one entry of search's result, from a match of the index
Passage(match) ==
    [text         |-> Get(match.metadata, "text", ""),
     source       |-> Get(match.metadata, "source", ""),
     url          |-> Get(match.metadata, "url", ""),
     title        |-> Get(match.metadata, "title", ""),
     content_type |-> Get(match.metadata, "content_type", ""),
     relevance    |-> match.score]

\* what index.query does: it raises (error), or answers from the ranking of the index,
\* best first
Query(matches, error) == [matches |-> matches, error |-> error]

\* search(query): emb is what the embedding call does, qry what index.query does, which
\* returns the top_k best matches.  [raised, sources, calls]
search(query, emb, qry) ==
    LET embed_call == [call |-> "feature_extraction", text |-> query, model |-> EMBEDDING_MODEL]
        query_call == [call |-> "index.query", vector |-> Embedding(query), top_k |-> TOP_K]
    IN  IF EmbedException(emb) # None
        THEN [raised |-> EmbedException(emb), sources |-> <<>>, calls |-> <<embed_call>>]
        ELSE IF qry.error
        THEN [raised |-> "PineconeException", sources |-> <<>>,
              calls |-> <<embed_call, query_call>>]
        ELSE LET matches == Take(qry.matches, TOP_K)
             IN  [raised |-> None,
                  sources |-> [i \in 1..Len(matches) |-> Passage(matches[i])],
                  calls |-> <<embed_call, query_call>>]

RULE_WIDTH == 60

ContextPart(i, src) ==
    LET header == "[Source " \o ToString(i) \o "] " \o src.title
                  \o (IF src.source # "" THEN " (" \o src.source \o ")" ELSE "")
    IN  header \o "\n" \o src.text

\* "\n\n" + "=" * 60 + "\n\n".join(context_parts): by precedence the rule is prepended
\* once and the parts are joined by blank lines
build_context(sources) ==
    "\n\n" \o Repeat("=", RULE_WIDTH)
    \o Join("\n\n", [i \in 1..Len(sources) |-> ContextPart(i, sources[i])])

\* _car_description(car_profile); a profile is a record of strings, None when absent
NoProfile == [absent |-> TRUE]

car_description(profile) ==
    IF profile = NoProfile THEN "their Porsche 993"
    ELSE LET parts == (IF Get(profile, "year", "") # "" THEN <<profile.year>> ELSE <<>>)
                      \o <<"Porsche 993">>
                      \o (IF Get(profile, "model", "") # "" THEN <<profile.model>> ELSE <<>>)
                      \o (IF Get(profile, "transmission", "") # ""
                          THEN <<profile.transmission>> ELSE <<>>)
             desc  == Join(" ", parts)
         IN  IF Get(profile, "mileage", "") # ""
             THEN desc \o " (~" \o profile.mileage \o " miles)"
             ELSE desc

UserMessageHead(car_desc, question, context) ==
    "Based on the following knowledge from Porsche forums and technical articles,\nanswer this question about the owner's "
    \o car_desc \o ":\n\nQUESTION: " \o question \o "\n\nFORUM KNOWLEDGE:\n" \o context

\* user_message of ask and ask_stream
ApiUserMessage(car_desc, question, context) ==
    UserMessageHead(car_desc, question, context)
    \o "\n\nPlease provide a helpful, practical answer based on this knowledge. Cite sources\nwhen referencing specific advice. If the sources are insufficient, say so."

\* user_message of the UI chat turn
UiUserMessage(car_desc, prompt, context) ==
    UserMessageHead(car_desc, prompt, context)
    \o "\n\nPlease provide a helpful, practical answer based on this knowledge."

(***************************************************************************)
(* build_system_prompt (src/api/chat.py)                                   *)
(***************************************************************************)
\* str.lower() on the letters of ASCII
LowerOf ==
    [c \in Letters |->
        CASE c = "A" -> "a" [] c = "B" -> "b" [] c = "C" -> "c" [] c = "D" -> "d"
          [] c = "E" -> "e" [] c = "F" -> "f" [] c = "G" -> "g" [] c = "H" -> "h"
          [] c = "I" -> "i" [] c = "J" -> "j" [] c = "K" -> "k" [] c = "L" -> "l"
          [] c = "M" -> "m" [] c = "N" -> "n" [] c = "O" -> "o" [] c = "P" -> "p"
          [] c = "Q" -> "q" [] c = "R" -> "r" [] c = "S" -> "s" [] c = "T" -> "t"
          [] c = "U" -> "u" [] c = "V" -> "v" [] c = "W" -> "w" [] c = "X" -> "x"
          [] c = "Y" -> "y" [] c = "Z" -> "z" [] OTHER -> c]

RECURSIVE Lower(_)
Lower(s) ==
    IF Len(s) = 0 THEN ""
    ELSE IF Len(s) = 1 THEN (IF s \in Letters THEN LowerOf[s] ELSE s)
    ELSE LET h == Len(s) \div 2
         IN  Lower(SubSeq(s, 1, h)) \o Lower(SubSeq(s, h + 1, Len(s)))

\* sub in s
Contains(s, sub) ==
    \E i \in 1..(Len(s) - Len(sub) + 1) : SubSeq(s, i, i + Len(sub) - 1) = sub

TARGA_HINT ==
    "- Targa-specific issues (roof seal leaks, body flex, Targa top mechanism)"

CABRIOLET_HINT ==
    "- Cabriolet-specific issues (soft top mechanism, hydraulics, rear window)"

TIPTRONIC_HINT ==
    "- Tiptronic-specific advice (fluid changes, shift adaptation, valve body)"

TURBO_HINT ==
    "- Turbo-specific advice (boost control, wastegate, intercooler, K24/K16 turbos)"

MileageHint(mileage) ==
    "- Mileage-appropriate maintenance (what's due at " \o mileage \o " miles)"

\* a variant that compares without lower-casing
AdviceLinesCaseSensitive(model, transmission, mileage) ==
    (IF Contains(model, "targa") THEN <<TARGA_HINT>> ELSE <<>>)
    \o (IF Contains(model, "cabriolet") \/ Contains(model, "cab")
        THEN <<CABRIOLET_HINT>> ELSE <<>>)
    \o (IF Contains(transmission, "tiptronic") THEN <<TIPTRONIC_HINT>> ELSE <<>>)
    \o (IF Contains(model, "turbo") THEN <<TURBO_HINT>> ELSE <<>>)
    \o (IF mileage # "" THEN <<MileageHint(mileage)>> ELSE <<>>)

\* advice_lines
AdviceLines(model, transmission, mileage) ==
    LET ml == Lower(model)
        tl == Lower(transmission)
    IN  (IF Contains(ml, "targa") THEN <<TARGA_HINT>> ELSE <<>>)
        \o (IF Contains(ml, "cabriolet") \/ Contains(ml, "cab")
            THEN <<CABRIOLET_HINT>> ELSE <<>>)
        \o (IF Contains(tl, "tiptronic") THEN <<TIPTRONIC_HINT>> ELSE <<>>)
        \o (IF Contains(ml, "turbo") THEN <<TURBO_HINT>> ELSE <<>>)
        \o (IF mileage # "" THEN <<MileageHint(mileage)>> ELSE <<>>)

GENERIC_CAR_SECTION ==
    "THE OWNER'S CAR:\n"
    \o "- Porsche 911 (993)\n"
    \o "- No specific details provided yet.\n"
    \o "Give general 993 advice until the owner shares their car details."

\* car_section; a profile that is None or the empty dict is falsy
CarSection(profile) ==
    IF profile = NoProfile THEN GENERIC_CAR_SECTION
    ELSE LET year         == Get(profile, "year", "")
             model        == Get(profile, "model", "993")
             transmission == Get(profile, "transmission", "")
             mileage      == Get(profile, "mileage", "")
             known_issues == Get(profile, "known_issues", "")
             advice_lines == AdviceLines(model, transmission, mileage)
         IN  "THE OWNER'S CAR:\n"
             \o "- " \o year \o " Porsche 911 (" \o model \o ")\n"
             \o "- " \o transmission \o " transmission\n"
             \o "- Approximately " \o mileage \o " miles"
             \o (IF known_issues # "" THEN "\n- Known issues: " \o known_issues ELSE "")
             \o (IF Len(advice_lines) > 0
                 THEN "\nAlways tailor your advice to this specific car. For example:\n"
                      \o Join("\n", advice_lines)
                 ELSE "")

PROMPT_HEAD ==
    "You are an expert Porsche 993 mechanic and advisor. You help the owner\n"
    \o "diagnose problems, perform repairs, and maintain their car.\n"
    \o "\n"

PROMPT_RULES ==
    "\n"
    \o "\n"
    \o "You have access to real knowledge from Porsche forums (Pelican Parts, Rennlist, 911uk,\n"
    \o "6SpeedOnline, TIPEC, Carpokes) and technical articles, DIY guides, and YouTube transcripts\n"
    \o "from experienced 993 owners and mechanics.\n"
    \o "\n"
    \o "RULES:\n"
    \o "1. Base your answers on the provided forum knowledge. If the sources contain\n"
    \o "   relevant information, cite it naturally (e.g. \"According to a Rennlist thread...\"\n"
    \o "   or \"A Pelican Parts tech article explains...\").\n"
    \o "2. If the sources don't contain enough info to fully answer, say so honestly\n"
    \o "   and share what you do know from general 993 knowledge.\n"
    \o "3. Include specific part numbers, torque specs, and step-by-step procedures\n"
    \o "   when available in the sources. Format part numbers in bold so they stand out.\n"
    \o "4. When there's disagreement in the forums, mention the different perspectives.\n"
    \o "5. Always err on the side of caution with safety-critical repairs (brakes,\n"
    \o "   suspension, steering). Recommend professional help when appropriate.\n"
    \o "6. Be conversational and practical, like a knowledgeable friend in the garage.\n"
    \o "7. You don't need to repeat the car specs back to the owner every time ~~~ they\n"
    \o "   know what they drive. Just give relevant, tailored advice.\n"
    \o "8. When discussing repairs that require parts, always mention the OEM part\n"
    \o "   numbers if they appear in the forum knowledge so the owner can order them.\n"
    \o "9. When the user shares photos of their car, parts, or issues:\n"
    \o "   - Describe what you see in the image clearly and specifically.\n"
    \o "   - Identify any parts, damage, wear patterns, leaks, or issues visible.\n"
    \o "   - Cross-reference what you see with the forum knowledge provided.\n"
    \o "   - If you can identify part numbers or specific components, mention them.\n"
    \o "   - Be specific about location and severity of any visible issues.\n"
    \o "10. When your source context references repair photos, diagrams, or step-by-step\n"
    \o "    images, describe what those images would show so the user understands the\n"
    \o "    procedure visually.\n"
    \o "\n"
    \o "When you reference source material, mention the source forum and thread topic\n"
    \o "so the user can look it up for more detail."

build_system_prompt(profile) == PROMPT_HEAD \o CarSection(profile) \o PROMPT_RULES

(***************************************************************************)
(* Source links (src/api/chat.py ask, ask_stream; src/ui/app.py)           *)
(***************************************************************************)
CITE_TOP == 5

TITLE_CUT == 60

\* the loop "for s in sources[:5]: if s[url] and s[url] not in seen": the passages kept
RECURSIVE UniqueLoop(_, _, _, _)
UniqueLoop(top, i, kept, seen) ==
    IF i > Len(top) THEN kept
    ELSE IF top[i].url # "" /\ top[i].url \notin seen
         THEN UniqueLoop(top, i + 1, Append(kept, top[i]), seen \cup {top[i].url})
         ELSE UniqueLoop(top, i + 1, kept, seen)

\* a variant that walks every retrieved passage
CitedAll(sources) == sources

CitedTop(sources) == Take(sources, CITE_TOP)

unique_urls(sources) == UniqueLoop(CitedTop(sources), 1, <<>>, {})

ApiCiteLine(s) == "  - " \o Take(s.title, TITLE_CUT) \o " ~~~ " \o s.url

\* the block ask appends and ask_stream yields last; "" when there is nothing to cite
ApiSourceBlock(sources) ==
    LET u == unique_urls(sources)
    IN  IF Len(u) = 0 THEN ""
        ELSE "\n\n~~~~ Sources:\n" \o Join("\n", [i \in 1..Len(u) |-> ApiCiteLine(u[i])])

UiCiteLine(s) ==
    "- [" \o Take(s.title, TITLE_CUT) \o "](" \o s.url \o ") *(" \o s.source \o ")*"

\* source_md of the UI chat turn
UiSourceBlock(sources) ==
    LET u == unique_urls(sources)
    IN  IF Len(u) = 0 THEN ""
        ELSE "\n\n---\n**Sources**\n" \o Join("\n", [i \in 1..Len(u) |-> UiCiteLine(u[i])])

(***************************************************************************)
(* Conversation store (src/api/chat_store.py)                              *)
(***************************************************************************)
TITLE_FALLBACK_CUT == 40

TITLE_MAX == 50

TitleRequest(message) ==
    [call |-> "messages.create", model |-> "claude-3-5-haiku-20241022", max_tokens |-> 20,
     content |-> "Generate a 3-6 word title for this Porsche 993 question. Just the title, no quotes or extra punctuation.\n\nQuestion: "
                 \o message]

\* generate_title(message): [value, calls]
generate_title(message, key, llm) ==
    IF key = ""
    THEN [value |-> Strip(Take(message, TITLE_FALLBACK_CUT)), calls |-> <<>>]
    ELSE IF LlmException(llm) # None
    THEN [value |-> Strip(Take(message, TITLE_FALLBACK_CUT))
                    \o (IF Len(message) > TITLE_FALLBACK_CUT THEN "..." ELSE ""),
          calls |-> <<TitleRequest(message)>>]
    ELSE [value |-> Take(StripChars(Strip(llm.text), {"\"", "'", "."}), TITLE_MAX),
          calls |-> <<TitleRequest(message)>>]

\* a variant that hands out one id again and again
new_conversation_id_repeating(n) == "conv1"

\* new_conversation_id(): uuid4().hex[:8], a fresh id at every call
new_conversation_id(n) == "conv" \o ToString(n + 1)

\* a variant whose updated_at is taken after created_at, a tick later
IndexEntryUpdatedLater(id, title, created_at, updated_at) ==
    [id |-> id, title |-> title, created_at |-> created_at, updated_at |-> updated_at + 1]

IndexEntry(id, title, created_at, updated_at) ==
    [id |-> id, title |-> title, created_at |-> created_at, updated_at |-> updated_at]

\* a variant that stores the turns under another key than load_conversation reads
ConversationObjectTurns(conv_id, msgs) == [id |-> conv_id, turns |-> msgs]

\* the object save_conversation puts
ConversationObject(conv_id, msgs) == [id |-> conv_id, messages |-> msgs]

\* load_conversation(conv_id): loaded is FALSE for the None returned when the get raises
\* (the object is missing, or the store fails: ok is FALSE)
load_conversation(convs, conv_id, ok) ==
    IF ok /\ conv_id \in DOMAIN convs
    THEN [loaded |-> TRUE, messages |-> Get(convs[conv_id], "messages", <<>>)]
    ELSE [loaded |-> FALSE, messages |-> <<>>]

\* save_conversation: the objects after the put
PutConversation(convs, conv_id, msgs) ==
    [k \in DOMAIN convs \cup {conv_id} |->
        IF k = conv_id THEN ConversationObject(conv_id, msgs) ELSE convs[k]]

\* a variant that adds an entry for the conversation instead of updating its entry
TouchEntryAppending(index, conv_id, now) ==
    Append(index, IndexEntry(conv_id, "", now, now))

\* "for conv in conv_index: if conv[id] == current: conv[updated_at] = now; break"
TouchEntry(index, conv_id, now) ==
    LET hits == {i \in 1..Len(index) : index[i].id = conv_id}
    IN  IF hits = {} THEN index
        ELSE LET first == CHOOSE i \in hits : \A j \in hits : i <= j
             IN  [index EXCEPT ![first].updated_at = now]

\* _prefix(user_id): None and "" are both falsy
_prefix(user_id) ==
    IF user_id = None \/ user_id = "" THEN "chats" ELSE "users/" \o user_id \o "/chats"

ConversationKey(conv_id, user_id) == _prefix(user_id) \o "/" \o conv_id \o ".json"

\* json.dumps: the body of the put.  json.loads(json.dumps(x)) is x for the values the
\* session holds (dicts with string keys, strings, lists of these), so the body is
\* modelled by the value it encodes
JsonBody(obj) == [ContentType |-> "application/json", Body |-> obj]

\* save_conversation(conv_id, messages, user_id) on a bucket (objects by key); put_ok is
\* whether the put succeeds
save_conversation(bucket, conv_id, msgs, user_id, put_ok) ==
    LET key == ConversationKey(conv_id, user_id)
    IN  IF ~put_ok THEN [raised |-> "ClientError", bucket |-> bucket]
        ELSE [raised |-> None,
              bucket |-> [k \in DOMAIN bucket \cup {key} |->
                             IF k = key THEN JsonBody(ConversationObject(conv_id, msgs))
                             ELSE bucket[k]]]

\* load_conversation(conv_id, user_id) on a bucket: the conversation objects of the
\* bucket, by the id the key is built from, are what load_conversation reads
BucketLoad(bucket, conv_id, user_id, get_ok) ==
    LET key == ConversationKey(conv_id, user_id)
        at  == IF key \in DOMAIN bucket THEN {conv_id} ELSE {}
    IN  load_conversation([id \in at |-> bucket[key].Body], conv_id, get_ok)

\* the store of one user: the index object, the conversation objects by id, the keys
\* of the image objects
Store(index, convs, images) == [index |-> index, convs |-> convs, images |-> images]

\* image_keys of delete_conversation: img["s3_key"] of every image of every message
\* that has one, in order
RECURSIVE ImageKeys(_)
ImageKeys(conv) ==
    IF Len(conv) = 0 THEN <<>>
    ELSE LET imgs == Images(Head(conv))
             keys == [i \in 1..Len(imgs) |-> Get(imgs[i], "s3_key", "")]
         IN  SelectSeq(keys, LAMBDA k : k # "") \o ImageKeys(Tail(conv))

\* what the store does to the calls of one delete_conversation: whether the client can
\* be built, whether the get of the conversation fails, the image keys whose delete
\* fails, whether the delete of the conversation object and the put of the index fail
DeleteFault(client_fails, load_fails, bad_images, object_fails, index_put_fails) ==
    [client_fails |-> client_fails, load_fails |-> load_fails, bad_images |-> bad_images,
     object_fails |-> object_fails, index_put_fails |-> index_put_fails]

NoFault == DeleteFault(FALSE, FALSE, {}, FALSE, FALSE)

\* a variant that compares the titles
WithoutTitle(index, conv_id) == SelectSeq(index, LAMBDA c : c.title # conv_id)

\* index = [c for c in index if c["id"] != conv_id]
WithoutId(index, conv_id) == SelectSeq(index, LAMBDA c : c.id # conv_id)

\* a variant without the outer try: a failure of the client or of the delete of the
\* conversation object reaches the caller
delete_conversation_unguarded(conv_id, index, store, f) ==
    LET got        == load_conversation(store.convs, conv_id, ~f.load_fails)
        image_keys == IF got.loaded THEN ImageKeys(got.messages) ELSE <<>>
        images1    == store.images \ (Range(image_keys) \ f.bad_images)
        convs1     == [k \in DOMAIN store.convs \ {conv_id} |-> store.convs[k]]
        index1     == WithoutId(index, conv_id)
    IN  IF f.client_fails
        THEN [raised |-> "ClientError", index |-> <<>>, store |-> store, deletes |-> <<>>]
        ELSE IF f.object_fails \/ f.index_put_fails
        THEN [raised |-> "ClientError", index |-> <<>>,
              store |-> Store(store.index, store.convs, images1),
              deletes |-> Append(image_keys, conv_id)]
        ELSE [raised |-> None, index |-> index1, store |-> Store(index1, convs1, images1),
              deletes |-> Append(image_keys, conv_id)]

\* delete_conversation(conv_id, index): [raised, index: the list returned, store: the
\* store afterwards, deletes: the keys of the delete_object calls issued]
delete_conversation(conv_id, index, store, f) ==
    LET got        == load_conversation(store.convs, conv_id, ~f.load_fails)
        image_keys == IF got.loaded THEN ImageKeys(got.messages) ELSE <<>>
        images1    == store.images \ (Range(image_keys) \ f.bad_images)
        convs1     == [k \in DOMAIN store.convs \ {conv_id} |-> store.convs[k]]
        tried      == IF f.client_fails
                      THEN [convs |-> store.convs, images |-> store.images, deletes |-> <<>>]
                      ELSE IF f.object_fails
                      THEN [convs |-> store.convs, images |-> images1,
                            deletes |-> Append(image_keys, conv_id)]
                      ELSE [convs |-> convs1, images |-> images1,
                            deletes |-> Append(image_keys, conv_id)]
        index1     == WithoutId(index, conv_id)
    IN  IF f.index_put_fails
        THEN [raised |-> "ClientError", index |-> <<>>,
              store |-> Store(store.index, tried.convs, tried.images),
              deletes |-> tried.deletes]
        ELSE [raised |-> None, index |-> index1,
              store |-> Store(index1, tried.convs, tried.images),
              deletes |-> tried.deletes]

(***************************************************************************)
(* Inputs of the model                                                     *)
(***************************************************************************)
MaxTurns == 1

MaxMatches == 7

MaxStored == 12

Keys == {"", PLACEHOLDER_KEY, "sk-ant-api03-test"}

Prompts == {"Why does my rear main seal leak?", "Should I just replace the part?"}

Profile96 ==
    [vin |-> "", year |-> "1996", model |-> "Carrera 4S", transmission |-> "Manual",
     mileage |-> "80,000", known_issues |-> ""]

\* what the rewriting call does in the pipeline; a placeholder key is no key of the API
PipelineRewriteOutcomes(key) ==
    IF key = PLACEHOLDER_KEY THEN {LlmOutcome("auth_error", "")}
    ELSE {LlmOutcome("timeout", ""), LlmOutcome("text", " 993 rear main seal replacement\n")}

TitleOutcomes == {LlmOutcome("timeout", ""), LlmOutcome("text", "\"Rear Main Seal Leak.\"\n")}

\* the ranking of the index for a query, best first.  Matches 1 and 2 are chunks of one
\* thread, match 3 names a part number in its title, match 4 has no url in its
\* metadata, match 5 has a title of more than 60 characters.
MatchMeta(i) ==
    CASE i = 1 -> [text |-> "The RMS weeps when the case bolts loosen.",
                   source |-> "Rennlist", url |-> "https://rennlist.com/t/101",
                   title |-> "Rear main seal leak", content_type |-> "forum"]
      [] i = 2 -> [text |-> "Mine leaked again after 20k miles.",
                   source |-> "Rennlist", url |-> "https://rennlist.com/t/101",
                   title |-> "Rear main seal leak", content_type |-> "forum"]
      [] i = 3 -> [text |-> "Press the new seal in dry.",
                   source |-> "Pelican Parts", url |-> "https://pelicanparts.com/a/3",
                   title |-> "Installing seal 964.307.103.00", content_type |-> "article"]
      [] i = 4 -> [text |-> "Check the intermediate shaft cover too.",
                   source |-> "", title |-> "Oil leak checklist", content_type |-> "forum"]
      [] i = 5 -> [text |-> "Clutch out, flywheel off, seal out.",
                   source |-> "911uk", url |-> "https://911uk.com/t/5",
                   title |-> "Step by step: replacing the rear main seal on a 993 with the engine in the car",
                   content_type |-> "forum"]
      [] OTHER -> [text |-> "See thread " \o ToString(i) \o ".",
                   source |-> "TIPEC", url |-> "https://tipec.net/t/" \o ToString(i),
                   title |-> "Thread " \o ToString(i), content_type |-> "forum"]

IndexRanking == [i \in 1..MaxMatches |-> [metadata |-> MatchMeta(i), score |-> 100 - i]]

QueryOutcomes ==
    {Query(<<>>, TRUE)} \cup {Query(Take(IndexRanking, n), FALSE) : n \in {0, MaxMatches}}

\* what the answering model does: the text chunks of its stream, and whether the
\* stream then fails
Stream(chunks, error) == [chunks |-> chunks, error |-> error]

StreamOutcomes ==
    {Stream(<<"The seal often weeps; ", "check the case bolts first.">>, FALSE),
     Stream(<<"Replace seal **999.113.", "426.41** (also 999-113-426-41).">>, FALSE),
     Stream(<<"Order 999.113.426.41 and 993.101.215.00.">>, FALSE),
     Stream(<<"The seal">>, TRUE)}

StreamText(strm) == Join("", strm.chunks)

\* a conversation an earlier session persisted: n turns, the last one an answer
StoredTurn(n, i) ==
    IF i = 1 \/ (n - i) % 2 = 1
    THEN Turn("user", "Question " \o ToString(i) \o " about the rear main seal")
    ELSE Turn("assistant", "Answer " \o ToString(i))

StoredConversation(n) == [i \in 1..n |-> StoredTurn(n, i)]

STORED_ID == "a1b2c3d4"

\* The outcomes to draw for an external call: all of them when the call is issued, and
\* one, which nothing reads, when the turn ends before the call
Issued(outcomes, issued) == IF issued THEN outcomes ELSE {CHOOSE o \in outcomes : TRUE}

(***************************************************************************)
(* The record of an answer turn                                            *)
(***************************************************************************)
NoTurn ==
    [kind |-> "none", prompt |-> "", history |-> <<>>, key |-> "", outcome |-> "none",
     error |-> None, calls |-> <<>>, search_query |-> "", sources |-> <<>>,
     llm_messages |-> <<>>, response |-> "", source_block |-> "", parts_block |-> "",
     result |-> "", chunks |-> <<>>, conv_id |-> None, puts |-> <<>>]

NoCall == [name |-> "none"]

CONFIG_MESSAGE_UI == "Please set ANTHROPIC_API_KEY in secrets."

CONFIG_MESSAGE_API ==
    "~~~ Please set your ANTHROPIC_API_KEY in .env\n   Get one at: https://console.anthropic.com/"

ANSWER_MODEL == "claude-sonnet-4-20250514"

StreamRequest(llm_messages) ==
    [call |-> "messages.stream", model |-> ANSWER_MODEL, max_tokens |-> 2000,
     messages |-> llm_messages]

CreateRequest(llm_messages) ==
    [call |-> "messages.create", model |-> ANSWER_MODEL, max_tokens |-> 2000,
     messages |-> llm_messages]

KeyMissing(key) == key = "" \/ key = PLACEHOLDER_KEY

(***************************************************************************)
(* The UI chat turn (src/ui/app.py, the st.chat_input block)               *)
(***************************************************************************)
HISTORY_WINDOW == 10

\* a variant that takes the window from the end of the list, the current question in it
ClaudeHistoryToEnd(msgs) ==
    LET previous == PySlice(msgs, -HISTORY_WINDOW, Len(msgs))
    IN  [i \in 1..Len(previous) |-> Turn(previous[i].role, previous[i].content)]

\* previous = st.session_state.messages[-11:-1], as {"role", "content"} messages
ClaudeHistory(msgs) ==
    LET previous == PySlice(msgs, -(HISTORY_WINDOW + 1), -1)
    IN  [i \in 1..Len(previous) |-> Turn(previous[i].role, previous[i].content)]

\* a variant that searches the question as typed, whatever the rewriter returned
UiPipelineSearchingPrompt(prompt, msgs, profile, key, rw, emb, qry, strm) ==
    LET history  == PySlice(msgs, 0, -1)
        rewrite  == rewrite_follow_up(prompt, history, key, rw)
        found    == search(prompt, emb, qry)
        context  == build_context(found.sources)
        user_msg == UiUserMessage(car_description(profile), prompt, context)
        claude   == Append(ClaudeHistory(msgs), Turn("user", user_msg))
        base     == [NoTurn EXCEPT !.kind = "ui", !.prompt = prompt, !.history = history,
                                   !.key = key]
    IN  IF rewrite.raised # None
        THEN [base EXCEPT !.outcome = "raised", !.error = rewrite.raised,
                          !.calls = rewrite.calls]
        ELSE IF found.raised # None
        THEN [base EXCEPT !.outcome = "raised", !.error = found.raised,
                          !.search_query = rewrite.value,
                          !.calls = rewrite.calls \o found.calls]
        ELSE IF KeyMissing(key)
        THEN [base EXCEPT !.outcome = "config_message", !.result = CONFIG_MESSAGE_UI,
                          !.search_query = rewrite.value, !.sources = found.sources,
                          !.calls = rewrite.calls \o found.calls]
        ELSE IF strm.error
        THEN [base EXCEPT !.outcome = "raised", !.error = "APIError",
                          !.search_query = rewrite.value, !.sources = found.sources,
                          !.llm_messages = claude,
                          !.calls = rewrite.calls \o found.calls \o <<StreamRequest(claude)>>]
        ELSE [base EXCEPT !.outcome = "streamed",
                          !.search_query = rewrite.value, !.sources = found.sources,
                          !.llm_messages = claude, !.response = StreamText(strm),
                          !.chunks = strm.chunks,
                          !.source_block = UiSourceBlock(found.sources),
                          !.calls = rewrite.calls \o found.calls \o <<StreamRequest(claude)>>]

\* The turn from the appended user turn to the end of the stream.  msgs holds the
\* session's messages with the user turn appended.  rw, emb, qry, strm are what the
\* rewriting call, the embedding call, the index query and the answer stream do.
UiPipeline(prompt, msgs, profile, key, rw, emb, qry, strm) ==
    LET history  == PySlice(msgs, 0, -1)
        rewrite  == rewrite_follow_up(prompt, history, key, rw)
        found    == search(rewrite.value, emb, qry)
        context  == build_context(found.sources)
        user_msg == UiUserMessage(car_description(profile), prompt, context)
        claude   == Append(ClaudeHistory(msgs), Turn("user", user_msg))
        base     == [NoTurn EXCEPT !.kind = "ui", !.prompt = prompt, !.history = history,
                                   !.key = key]
    IN  IF rewrite.raised # None
        THEN [base EXCEPT !.outcome = "raised", !.error = rewrite.raised,
                          !.calls = rewrite.calls]
        ELSE IF found.raised # None
        THEN [base EXCEPT !.outcome = "raised", !.error = found.raised,
                          !.search_query = rewrite.value,
                          !.calls = rewrite.calls \o found.calls]
        ELSE IF KeyMissing(key)
        THEN [base EXCEPT !.outcome = "config_message", !.result = CONFIG_MESSAGE_UI,
                          !.search_query = rewrite.value, !.sources = found.sources,
                          !.calls = rewrite.calls \o found.calls]
        ELSE IF strm.error
        THEN [base EXCEPT !.outcome = "raised", !.error = "APIError",
                          !.search_query = rewrite.value, !.sources = found.sources,
                          !.llm_messages = claude,
                          !.calls = rewrite.calls \o found.calls \o <<StreamRequest(claude)>>]
        ELSE [base EXCEPT !.outcome = "streamed",
                          !.search_query = rewrite.value, !.sources = found.sources,
                          !.llm_messages = claude, !.response = StreamText(strm),
                          !.chunks = strm.chunks,
                          !.source_block = UiSourceBlock(found.sources),
                          !.calls = rewrite.calls \o found.calls \o <<StreamRequest(claude)>>]

\* a variant that puts the parts links before the source links
FullResponsePartsFirst(response_text, source_md, parts_md) ==
    response_text \o parts_md \o source_md

\* full_response = response_text + source_md + parts_md
FullResponse(response_text, source_md, parts_md) == response_text \o source_md \o parts_md

\* a variant of EndRun that saves the conversation with the unanswered user turn
EndRunSavingTurn(p, msgs1) ==
    /\ messages' = msgs1
    /\ last' = p
    /\ clock' = clock + 1
    /\ s3_convs' = IF current_conv_id = None THEN s3_convs
                   ELSE PutConversation(s3_convs, current_conv_id, msgs1)
    /\ UNCHANGED <<conv_index, current_conv_id, confirm_delete, editing_conv_id,
                   s3_index, s3_images, uuid_ctr>>

\* The script run ends in the pipeline, by an exception or by st.stop(): the session
\* keeps the user turn appended before, nothing after the pipeline runs
EndRun(p, msgs1) ==
    /\ messages' = msgs1
    /\ last' = p
    /\ clock' = clock + 1
    /\ UNCHANGED <<conv_index, current_conv_id, confirm_delete, editing_conv_id,
                   s3_index, s3_convs, s3_images, uuid_ctr>>

\* the script reaches the chat area: past the onboarding gate, the edit form not shown
ChatArea == car_profile # NoProfile /\ ~show_edit_profile

\* The chat turn: the user turn is appended to the session first; an exception or
\* st.stop() ends the script run and leaves the session as it is by then; a
\* completed stream is followed by the source links, the parts links, the assistant
\* turn, the index entry and the two puts.  put is what the store does: "ok",
\* "index_put_fails" (save_index raises) or "conversation_put_fails".
ChatTurnWith(prompts, rewrites, embeds, queries, streams, titles, puts) ==
    /\ ChatArea
    /\ \E prompt \in prompts,
          rw \in Issued(rewrites, Len(messages) > 0 /\ api_key # ""),
          emb \in embeds :
       \E qry \in Issued(queries, emb = "ok") :
       \E strm \in Issued(streams, emb = "ok" /\ ~qry.error /\ ~KeyMissing(api_key)) :
       \E ttl \in Issued(titles, ~strm.error /\ current_conv_id = None),
          put \in Issued(puts, ~strm.error) :
        LET msgs1 == Append(messages, Turn("user", prompt))
            p     == UiPipeline(prompt, msgs1, car_profile, api_key, rw, emb, qry, strm)
        IN  IF p.outcome # "streamed"
            THEN EndRun(p, msgs1)
            ELSE \E part_numbers \in extract_part_numbers(p.response) :
                 LET parts_md == generate_parts_links(part_numbers)
                     full     == FullResponse(p.response, p.source_block, parts_md)
                     msgs2    == Append(msgs1, Turn("assistant", full))
                     now      == clock
                     is_new   == current_conv_id = None
                     conv_id  == IF is_new THEN new_conversation_id(uuid_ctr)
                                 ELSE current_conv_id
                     title    == IF is_new THEN generate_title(prompt, api_key, ttl)
                                 ELSE [value |-> "", calls |-> <<>>]
                     index2   == IF is_new
                                 THEN Append(conv_index,
                                             IndexEntry(conv_id, title.value, now, now))
                                 ELSE TouchEntry(conv_index, conv_id, now)
                 IN  /\ messages' = msgs2
                     /\ current_conv_id' = conv_id
                     /\ uuid_ctr' = IF is_new THEN uuid_ctr + 1 ELSE uuid_ctr
                     /\ conv_index' = index2
                     /\ s3_index' = IF put = "index_put_fails" THEN s3_index ELSE index2
                     /\ s3_convs' = IF put = "ok"
                                    THEN PutConversation(s3_convs, conv_id, msgs2)
                                    ELSE s3_convs
                     /\ clock' = clock + 1
                     /\ last' = [p EXCEPT
                           !.outcome = IF put = "ok" THEN "answered" ELSE "raised",
                           !.error = IF put = "ok" THEN None ELSE "ClientError",
                           !.parts_block = parts_md,
                           !.result = full,
                           !.calls = p.calls \o title.calls,
                           !.conv_id = conv_id,
                           !.puts = CASE put = "ok" -> <<"index", conv_id>>
                                      [] put = "index_put_fails" -> <<>>
                                      [] OTHER -> <<"index">>]
                     /\ UNCHANGED <<confirm_delete, editing_conv_id, s3_images>>
    /\ UNCHANGED <<envVars, fn>>

\* a chat turn of the session that exercises the answer pipeline
ChatTurn ==
    /\ mode = "ui"
    /\ clock <= MaxTurns
    /\ ChatTurnWith(Prompts, PipelineRewriteOutcomes(api_key), EmbedKinds, QueryOutcomes,
                    StreamOutcomes, TitleOutcomes, {"ok"})

\* the sessions of the UI
UiModes == {"ui", "session", "faulty_session", "two_sessions", "long_conversation"}

\* whether a get of the store succeeds: always in a session whose store calls succeed
GetOutcomes ==
    IF mode \in {"session", "two_sessions", "long_conversation"} THEN {TRUE} ELSE BOOLEAN

\* whether a put of the store succeeds
PutOutcomes == IF mode = "faulty_session" THEN BOOLEAN ELSE {TRUE}

HasEntry(index, id) == \E i \in 1..Len(index) : index[i].id = id

\* "+ New Chat"
NewChat ==
    /\ mode \in UiModes
    /\ current_conv_id' = None
    /\ messages' = <<>>
    /\ UNCHANGED <<conv_index, confirm_delete, editing_conv_id,
                   s3_index, s3_convs, s3_images, uuid_ctr, clock>>
    /\ UNCHANGED <<envVars, last, fn>>

\* a variant of the click that makes the conversation the active one before it is loaded
SwitchConversationEarly ==
    /\ mode \in UiModes
    /\ \E i \in 1..Len(conv_index), ok \in GetOutcomes :
        LET conv_id == conv_index[i].id
            got     == load_conversation(s3_convs, conv_id, ok)
        IN  /\ conv_id \notin {current_conv_id, confirm_delete, editing_conv_id}
            /\ current_conv_id' = conv_id
            /\ IF got.loaded
               THEN /\ messages' = got.messages
                    /\ confirm_delete' = None
                    /\ editing_conv_id' = None
               ELSE UNCHANGED <<messages, confirm_delete, editing_conv_id>>
    /\ UNCHANGED <<conv_index, s3_index, s3_convs, s3_images, uuid_ctr, clock>>
    /\ UNCHANGED <<envVars, last, fn>>

\* a click on a conversation row that is not the active one; ok is whether the get
\* of the store succeeds
SwitchConversation ==
    /\ mode \in UiModes
    /\ \E i \in 1..Len(conv_index), ok \in GetOutcomes :
        LET conv_id == conv_index[i].id
            got     == load_conversation(s3_convs, conv_id, ok)
        IN  /\ conv_id \notin {current_conv_id, confirm_delete, editing_conv_id}
            /\ IF got.loaded
               THEN /\ current_conv_id' = conv_id
                    /\ messages' = got.messages
                    /\ confirm_delete' = None
                    /\ editing_conv_id' = None
               ELSE UNCHANGED <<current_conv_id, messages, confirm_delete, editing_conv_id>>
    /\ UNCHANGED <<conv_index, s3_index, s3_convs, s3_images, uuid_ctr, clock>>
    /\ UNCHANGED <<envVars, last, fn>>

\* the rows of the sidebar: a row shows the delete confirmation, or else the rename
\* field, or else the conversation button and the "..." popover
ConfirmRow(conv_id) == HasEntry(conv_index, conv_id) /\ confirm_delete = conv_id

RenameRow(conv_id) ==
    HasEntry(conv_index, conv_id) /\ confirm_delete # conv_id /\ editing_conv_id = conv_id

PlainRow(conv_id) ==
    HasEntry(conv_index, conv_id) /\ conv_id \notin {confirm_delete, editing_conv_id}

\* popover "Delete"
AskDelete ==
    /\ mode \in UiModes
    /\ \E i \in 1..Len(conv_index) :
        /\ PlainRow(conv_index[i].id)
        /\ confirm_delete' = conv_index[i].id
    /\ UNCHANGED <<messages, conv_index, current_conv_id, editing_conv_id,
                   s3_index, s3_convs, s3_images, uuid_ctr, clock>>
    /\ UNCHANGED <<envVars, last, fn>>

\* what the store does to a delete_conversation of the session
SessionFaults ==
    IF mode = "faulty_session"
    THEN {NoFault, DeleteFault(FALSE, TRUE, {}, TRUE, FALSE),
          DeleteFault(FALSE, FALSE, {}, FALSE, TRUE)}
    ELSE {NoFault}

\* "Delete" of the confirmation: an exception of delete_conversation ends the script run
\* before the session is touched
ConfirmDelete ==
    /\ mode \in UiModes
    /\ \E i \in 1..Len(conv_index), f \in SessionFaults :
        LET conv_id == conv_index[i].id
            r == delete_conversation(conv_id, conv_index,
                                     Store(s3_index, s3_convs, s3_images), f)
        IN  /\ ConfirmRow(conv_id)
            /\ s3_index' = r.store.index
            /\ s3_convs' = r.store.convs
            /\ s3_images' = r.store.images
            /\ IF r.raised # None
               THEN UNCHANGED <<conv_index, current_conv_id, messages, confirm_delete>>
               ELSE /\ conv_index' = r.index
                    /\ current_conv_id' = IF current_conv_id = conv_id THEN None
                                          ELSE current_conv_id
                    /\ messages' = IF current_conv_id = conv_id THEN <<>> ELSE messages
                    /\ confirm_delete' = None
    /\ UNCHANGED <<editing_conv_id, uuid_ctr, clock>>
    /\ UNCHANGED <<envVars, last, fn>>

\* "Cancel" of the confirmation
CancelDelete ==
    /\ mode \in UiModes
    /\ \E i \in 1..Len(conv_index) : ConfirmRow(conv_index[i].id)
    /\ confirm_delete' = None
    /\ UNCHANGED <<messages, conv_index, current_conv_id, editing_conv_id,
                   s3_index, s3_convs, s3_images, uuid_ctr, clock>>
    /\ UNCHANGED <<envVars, last, fn>>

\* popover "Rename"
AskRename ==
    /\ mode \in UiModes
    /\ \E i \in 1..Len(conv_index) :
        /\ PlainRow(conv_index[i].id)
        /\ editing_conv_id' = conv_index[i].id
    /\ UNCHANGED <<messages, conv_index, current_conv_id, confirm_delete,
                   s3_index, s3_convs, s3_images, uuid_ctr, clock>>
    /\ UNCHANGED <<envVars, last, fn>>

\* what the user types into the rename field
RenameTitles == {"   ", " Track car "}

\* "for c in conv_index: if c[id] == conv_id: c[title] = new_title.strip(); break"
Retitle(index, conv_id, title) ==
    LET hits == {i \in 1..Len(index) : index[i].id = conv_id}
    IN  IF hits = {} THEN index
        ELSE [index EXCEPT ![SetMin(hits)].title = title]

\* "Save" of the rename field: the entry is changed in the session, then save_index puts
\* the index; when the put raises, the script run ends with the field still open
SaveRename ==
    /\ mode \in UiModes
    /\ \E i \in 1..Len(conv_index), new_title \in RenameTitles, put_ok \in PutOutcomes :
        LET conv_id == conv_index[i].id
        IN  /\ RenameRow(conv_id)
            /\ IF Strip(new_title) = ""
               THEN /\ editing_conv_id' = None
                    /\ UNCHANGED <<conv_index, s3_index>>
               ELSE /\ conv_index' = Retitle(conv_index, conv_id, Strip(new_title))
                    /\ s3_index' = IF put_ok THEN conv_index' ELSE s3_index
                    /\ editing_conv_id' = IF put_ok THEN None ELSE editing_conv_id
    /\ UNCHANGED <<messages, current_conv_id, confirm_delete, s3_convs, s3_images,
                   uuid_ctr, clock>>
    /\ UNCHANGED <<envVars, last, fn>>

\* "Cancel" of the rename field
CancelRename ==
    /\ mode \in UiModes
    /\ \E i \in 1..Len(conv_index) : RenameRow(conv_index[i].id)
    /\ editing_conv_id' = None
    /\ UNCHANGED <<messages, conv_index, current_conv_id, confirm_delete,
                   s3_index, s3_convs, s3_images, uuid_ctr, clock>>
    /\ UNCHANGED <<envVars, last, fn>>

(***************************************************************************)
(* ask and ask_stream (src/api/chat.py)                                    *)
(***************************************************************************)
\* what the answering call of ask does, for what the stream of ask_stream does
CreateOutcome(strm) ==
    IF strm.error THEN LlmOutcome("timeout", "") ELSE LlmOutcome("text", StreamText(strm))

ApiProfiles == {NoProfile, Profile96}

\* ask up to the answer of the model
AskPipeline(question, profile, key, emb, qry, llm) ==
    LET found   == search(question, emb, qry)
        context == build_context(found.sources)
        request == <<Turn("user", ApiUserMessage(car_description(profile), question, context))>>
        base    == [NoTurn EXCEPT !.prompt = question, !.key = key]
    IN  IF KeyMissing(key)
        THEN [base EXCEPT !.outcome = "config_message", !.result = CONFIG_MESSAGE_API]
        ELSE IF found.raised # None
        THEN [base EXCEPT !.outcome = "raised", !.error = found.raised,
                          !.search_query = question, !.calls = found.calls]
        ELSE IF LlmException(llm) # None
        THEN [base EXCEPT !.outcome = "raised", !.error = LlmException(llm),
                          !.search_query = question, !.sources = found.sources,
                          !.llm_messages = request,
                          !.calls = found.calls \o <<CreateRequest(request)>>]
        ELSE [base EXCEPT !.outcome = "answered",
                          !.search_query = question, !.sources = found.sources,
                          !.llm_messages = request, !.response = llm.text,
                          !.source_block = ApiSourceBlock(found.sources),
                          !.calls = found.calls \o <<CreateRequest(request)>>]

\* ask(question, car_profile): the part numbers are extracted from the answer after
\* the source links were appended to it.  A call reads nothing an earlier call wrote,
\* so every call is modelled from the initial state.
Ask ==
    /\ mode = "api"
    /\ last.kind = "none"
    /\ \E question \in Prompts, profile \in ApiProfiles,
          emb \in Issued(EmbedKinds, ~KeyMissing(api_key)) :
       \E qry \in Issued(QueryOutcomes, ~KeyMissing(api_key) /\ emb = "ok") :
       \E strm \in Issued(StreamOutcomes, ~KeyMissing(api_key) /\ emb = "ok" /\ ~qry.error) :
        LET p == AskPipeline(question, profile, api_key, emb, qry, CreateOutcome(strm))
        IN  IF p.outcome # "answered"
            THEN last' = [p EXCEPT !.kind = "ask"]
            ELSE LET answer == p.response \o p.source_block
                 IN  \E part_numbers \in extract_part_numbers(answer) :
                        LET parts == IF Len(part_numbers) > 0
                                     THEN generate_parts_links(part_numbers) ELSE ""
                        IN  last' = [p EXCEPT !.kind = "ask", !.parts_block = parts,
                                              !.result = answer \o parts]
    /\ UNCHANGED <<envVars, sessionVars, fn>>

\* ask_stream(question, car_profile), consumed to its end: the chunks it yields
AskStream ==
    /\ mode = "api"
    /\ last.kind = "none"
    /\ \E question \in Prompts, profile \in ApiProfiles,
          emb \in Issued(EmbedKinds, ~KeyMissing(api_key)) :
       \E qry \in Issued(QueryOutcomes, ~KeyMissing(api_key) /\ emb = "ok") :
       \E strm \in Issued(StreamOutcomes, ~KeyMissing(api_key) /\ emb = "ok" /\ ~qry.error) :
        LET p == AskPipeline(question, profile, api_key, emb, qry, LlmOutcome("text", ""))
            request == StreamRequest(p.llm_messages)
            calls   == SubSeq(p.calls, 1, Len(p.calls) - 1) \o <<request>>
        IN  IF p.outcome = "config_message"
            THEN last' = [p EXCEPT !.kind = "ask_stream", !.chunks = <<CONFIG_MESSAGE_API>>]
            ELSE IF p.outcome = "raised"
            THEN last' = [p EXCEPT !.kind = "ask_stream"]
            ELSE IF strm.error
            THEN last' = [p EXCEPT !.kind = "ask_stream", !.outcome = "raised",
                                   !.error = "APIError", !.calls = calls,
                                   !.source_block = "", !.chunks = strm.chunks,
                                   !.result = StreamText(strm)]
            ELSE LET chunks == strm.chunks
                               \o (IF p.source_block # "" THEN <<p.source_block>> ELSE <<>>)
                 IN  last' = [p EXCEPT !.kind = "ask_stream", !.calls = calls,
                                       !.response = StreamText(strm), !.chunks = chunks,
                                       !.result = Join("", chunks)]
    /\ UNCHANGED <<envVars, sessionVars, fn>>

(***************************************************************************)
(* The answer pipeline: a UI session or the callers of ask / ask_stream    *)
(***************************************************************************)
StoredIndex == <<IndexEntry(STORED_ID, "Rear main seal", 0, 0)>>

Init ==
    /\ mode \in {"ui", "api"}
    /\ api_key \in Keys
    /\ car_profile = IF mode = "ui" THEN Profile96 ELSE NoProfile
    /\ show_edit_profile = FALSE
    /\ ColdProcess
    /\ other_session = NoSession
    /\ s3_profile = car_profile
    /\ s3_convs = [id \in {STORED_ID} |->
                      ConversationObject(STORED_ID, StoredConversation(MaxStored))]
    /\ s3_index = StoredIndex
    /\ conv_index = s3_index
    /\ current_conv_id = None
    /\ messages = <<>>
    /\ confirm_delete = None
    /\ editing_conv_id = None
    /\ s3_images = {}
    /\ uuid_ctr = 0
    /\ clock = 1
    /\ last = NoTurn
    /\ fn = NoCall

Next ==
    \/ ChatTurn
    \/ NewChat
    \/ SwitchConversation
    \/ Ask
    \/ AskStream

Spec == Init /\ [][Next]_vars

(***************************************************************************)
(* rewrite_follow_up applied to drawn inputs                               *)
(***************************************************************************)
MaxHistory == 5

LenSlack == 1

\* a conversation with photos on its third turn and long answers
RewriteHistoryTurn(i) ==
    CASE i = 3      -> ImageTurn("user", "Here is the oily spot under the bell housing",
                                 <<[s3_key |-> "users/u1/images/a.jpg"],
                                   [s3_key |-> "users/u1/images/b.jpg"]>>)
      [] i % 2 = 1  -> Turn("user", "My rear main seal leaks, turn " \o ToString(i))
      [] OTHER      -> Turn("assistant",
                            Repeat("The rear main seal sits behind the flywheel. ",
                                   4 + i))

RewriteHistories == {[i \in 1..n |-> RewriteHistoryTurn(i)] : n \in 0..MaxHistory}

\* a text of n characters that neither starts nor ends with white space
Body(n) == IF n = 0 THEN "" ELSE Take(Repeat("seal ", n), n - 1) \o "?"

RewriteBodyLens ==
    {0, 1} \cup ((REWRITE_MAX_LEN - LenSlack)..(REWRITE_MAX_LEN + LenSlack))

RewriteTexts ==
    {lead \o Body(n) \o trail : lead \in {"", " \n"}, trail \in {"", "\n"},
                                n \in RewriteBodyLens}

\* what the rewriting call can do with a key the API may accept
RewriteOutcomes ==
    {LlmOutcome(k, "") : k \in LlmKinds \ {"text"}}
    \cup {LlmOutcome("text", text) : text \in RewriteTexts}

RewriteOutcomesFor(history, key) ==
    IF key = PLACEHOLDER_KEY THEN {LlmOutcome("auth_error", "")}
    ELSE Issued(RewriteOutcomes, Len(history) > 0 /\ key # "")

NoResult == [pending |-> TRUE]

PinnedSession ==
    /\ mode = "fn"
    /\ api_key = ""
    /\ car_profile = NoProfile
    /\ show_edit_profile = FALSE
    /\ ColdProcess
    /\ other_session = NoSession
    /\ s3_profile = car_profile
    /\ s3_convs = [id \in {STORED_ID} |->
                      ConversationObject(STORED_ID, StoredConversation(MaxStored))]
    /\ s3_index = StoredIndex
    /\ conv_index = s3_index
    /\ current_conv_id = None
    /\ messages = <<>>
    /\ confirm_delete = None
    /\ editing_conv_id = None
    /\ s3_images = {}
    /\ uuid_ctr = 0
    /\ clock = 1
    /\ last = NoTurn

InitRewrite ==
    /\ PinnedSession
    /\ \E prompt \in Prompts, history \in RewriteHistories, key \in Keys :
       \E llm \in RewriteOutcomesFor(history, key) :
          fn = [name |-> "rewrite_follow_up", prompt |-> prompt, history |-> history,
                key |-> key, llm |-> llm, done |-> FALSE, result |-> NoResult]

RewriteFollowUp ==
    /\ fn.name = "rewrite_follow_up"
    /\ ~fn.done
    /\ fn' = [fn EXCEPT !.done = TRUE,
                        !.result = rewrite_follow_up(fn.prompt, fn.history, fn.key, fn.llm)]
    /\ UNCHANGED <<envVars, sessionVars, last>>

NextRewrite == RewriteFollowUp

SpecRewrite == InitRewrite /\ [][NextRewrite]_vars

(***************************************************************************)
(* generate_parts_links applied to drawn inputs                            *)
(***************************************************************************)
MaxParts == 3

\* spellings the pattern matches: two numbers, with dots, dashes and both
PartSpellings == {"993.116.015.04", "993-116-015-04", "999.113.426.41", "999-113.426-41"}

PartLists == UNION {[1..n -> PartSpellings] : n \in 0..MaxParts}

InitParts ==
    /\ PinnedSession
    /\ \E part_numbers \in PartLists :
          fn = [name |-> "generate_parts_links", part_numbers |-> part_numbers,
                done |-> FALSE, result |-> ""]

GeneratePartsLinks ==
    /\ fn.name = "generate_parts_links"
    /\ ~fn.done
    /\ fn' = [fn EXCEPT !.done = TRUE, !.result = generate_parts_links(fn.part_numbers)]
    /\ UNCHANGED <<envVars, sessionVars, last>>

NextParts == GeneratePartsLinks

SpecParts == InitParts /\ [][NextParts]_vars

(***************************************************************************)
(* delete_conversation, called once and again on the index it returned     *)
(***************************************************************************)
MaxIndex == 3

\* the ids of the entries an index can hold, and one that no index holds
DeleteIds == {new_conversation_id(i - 1) : i \in 1..MaxIndex}

ABSENT_ID == "0badc0de"

DeleteEntry(id) == IndexEntry(id, "Chat " \o id, 1, 2)

\* the indexes the program writes: no two entries of the same id
DeleteIndexes ==
    {[i \in DOMAIN s |-> DeleteEntry(s[i])] :
        s \in UNION {Orderings(ids) : ids \in SUBSET DeleteIds}}

IMAGE_1 == "users/u1/images/0123456789ab.jpg"

IMAGE_2 == "users/u1/images/ba9876543210.jpg"

IMAGE_3 == "users/u1/images/ffffffffffff.jpg"

\* the first conversation carries two stored images and one image without a key, the
\* last one has an index entry and no object
DeleteConversations(index) ==
    LET ids == {index[i].id : i \in 1..Len(index)} \ {new_conversation_id(MaxIndex - 1)}
    IN  [id \in ids |->
            IF id = new_conversation_id(0)
            THEN ConversationObject(id,
                    <<ImageTurn("user", "What is this part?",
                                <<[s3_key |-> IMAGE_1], [name |-> "pasted.png"]>>),
                      Turn("assistant", "A distributor cap."),
                      ImageTurn("user", "And this?", <<[s3_key |-> IMAGE_2]>>)>>)
            ELSE ConversationObject(id, <<Turn("user", "Question in " \o id)>>)]

FirstFaults ==
    {DeleteFault(c, l, b, o, p) :
        c \in BOOLEAN, l \in BOOLEAN, b \in {{}, {IMAGE_2}}, o \in BOOLEAN, p \in BOOLEAN}

SecondFaults == {NoFault, DeleteFault(FALSE, FALSE, {}, TRUE, FALSE),
                 DeleteFault(FALSE, FALSE, {}, FALSE, TRUE)}

InitDelete ==
    /\ PinnedSession
    /\ \E index \in DeleteIndexes, conv_id \in DeleteIds \cup {ABSENT_ID} :
          fn = [name |-> "delete_conversation", conv_id |-> conv_id, index |-> index,
                store |-> Store(index, DeleteConversations(index),
                                {IMAGE_1, IMAGE_2, IMAGE_3}),
                calls |-> <<>>]

\* one call; the second call is given the index the first one returned
DeleteConversation ==
    /\ fn.name = "delete_conversation"
    /\ Len(fn.calls) < 2
    /\ Len(fn.calls) = 1 => fn.calls[1].raised = None
    /\ \E f \in IF Len(fn.calls) = 0 THEN FirstFaults ELSE SecondFaults :
        LET index == IF Len(fn.calls) = 0 THEN fn.index ELSE fn.calls[1].index
            store == IF Len(fn.calls) = 0 THEN fn.store ELSE fn.calls[1].store
            r     == delete_conversation(fn.conv_id, index, store, f)
        IN  fn' = [fn EXCEPT !.calls = Append(@, [faults |-> f, raised |-> r.raised,
                                                   index |-> r.index, store |-> r.store,
                                                   deletes |-> r.deletes])]
    /\ UNCHANGED <<envVars, sessionVars, last>>

NextDelete == DeleteConversation

SpecDelete == InitDelete /\ [][NextDelete]_vars

(***************************************************************************)
(* save_conversation, writes to other keys, then load_conversation         *)
(***************************************************************************)
MaxSaved == 2

UserIds == {None, "", "3f2a9c1e", "77d0b4aa"}

SavedTurns ==
    {Turn("user", "Why does my \"rear main seal\" leak?\nIt drips."),
     Turn("assistant", "Check the case bolts first."),
     ImageTurn("user", "What is this part?", <<[s3_key |-> IMAGE_1]>>)}

SavedConversations == UNION {[1..n -> SavedTurns] : n \in 0..MaxSaved}

OldConversation == <<Turn("user", "An older question"), Turn("assistant", "An older answer")>>

\* the bucket before: empty, or with an object at the key of the stored conversation of
\* the second user
InitBuckets ==
    {[k \in {} |-> JsonBody(ConversationObject(STORED_ID, OldConversation))],
     [k \in {ConversationKey(STORED_ID, "3f2a9c1e")} |->
         JsonBody(ConversationObject(STORED_ID, OldConversation))]}

InitStore ==
    /\ PinnedSession
    /\ \E bucket \in InitBuckets :
          fn = [name |-> "store", bucket |-> bucket, step |-> "start",
                conv_id |-> None, user_id |-> None, messages |-> <<>>,
                get_ok |-> TRUE, loaded |-> [loaded |-> FALSE, messages |-> <<>>]]

SaveConversation ==
    /\ fn.name = "store" /\ fn.step = "start"
    /\ \E conv_id \in {STORED_ID, new_conversation_id(0)}, user_id \in UserIds,
          msgs \in SavedConversations, put_ok \in BOOLEAN :
        LET r == save_conversation(fn.bucket, conv_id, msgs, user_id, put_ok)
        IN  fn' = [fn EXCEPT !.bucket = r.bucket, !.conv_id = conv_id,
                             !.user_id = user_id, !.messages = msgs,
                             !.step = IF r.raised = None THEN "saved" ELSE "raised"]
    /\ UNCHANGED <<envVars, sessionVars, last>>

\* a write of another conversation or of another user: any key but the saved one
OtherSave ==
    /\ fn.name = "store" /\ fn.step = "saved"
    /\ \E conv_id \in {STORED_ID, new_conversation_id(0)}, user_id \in UserIds :
        /\ ConversationKey(conv_id, user_id) # ConversationKey(fn.conv_id, fn.user_id)
        /\ fn' = [fn EXCEPT
                    !.bucket = save_conversation(@, conv_id, OldConversation, user_id,
                                                 TRUE).bucket,
                    !.step = "written"]
    /\ UNCHANGED <<envVars, sessionVars, last>>

LoadConversation ==
    /\ fn.name = "store" /\ fn.step \in {"saved", "written"}
    /\ \E get_ok \in BOOLEAN :
        fn' = [fn EXCEPT !.get_ok = get_ok, !.step = "loaded",
                         !.loaded = BucketLoad(fn.bucket, fn.conv_id, fn.user_id, get_ok)]
    /\ UNCHANGED <<envVars, sessionVars, last>>

NextStore == SaveConversation \/ OtherSave \/ LoadConversation

SpecStore == InitStore /\ [][NextStore]_vars

(***************************************************************************)
(* A session of the UI: chat turns, new chat, switch, rename, delete       *)
(***************************************************************************)
MaxSessionTurns == 1

\* the store at the start of the session: a conversation of an earlier session, with a
\* stored image
SessionConversations ==
    [id \in {STORED_ID} |->
        ConversationObject(id,
            <<ImageTurn("user", "What is this part?", <<[s3_key |-> IMAGE_1]>>),
              Turn("assistant", "A rear main seal.")>>)]

SessionIndex == <<IndexEntry(STORED_ID, "Rear main seal", 0, 0)>>

\* load_index at the start of the session: [] when the get raises
InitSession ==
    /\ mode \in {"session", "faulty_session"}
    /\ api_key = "sk-ant-api03-test"
    /\ car_profile = Profile96
    /\ show_edit_profile = FALSE
    /\ ColdProcess
    /\ other_session = NoSession
    /\ s3_profile = car_profile
    /\ s3_convs = SessionConversations
    /\ s3_index = SessionIndex
    /\ s3_images = {IMAGE_1, IMAGE_3}
    /\ conv_index \in {IF ok THEN s3_index ELSE <<>> : ok \in GetOutcomes}
    /\ current_conv_id = None
    /\ messages = <<>>
    /\ confirm_delete = None
    /\ editing_conv_id = None
    /\ uuid_ctr = 0
    /\ clock = 1
    /\ last = NoTurn
    /\ fn = NoCall

\* a chat turn of the session: one question, one passage, an answer or a failing stream
SessionTurn ==
    /\ mode \in {"session", "faulty_session"}
    /\ clock <= MaxSessionTurns
    /\ ChatTurnWith({"Should I just replace the part?"},
                    {LlmOutcome("text", "replace rear main seal 993")},
                    {"ok"},
                    {Query(Take(IndexRanking, 1), FALSE)},
                    {Stream(<<"Order 999.113.426.41.">>, FALSE), Stream(<<"The seal">>, TRUE)},
                    {LlmOutcome("text", "Replacing the seal")},
                    IF mode = "faulty_session"
                    THEN {"ok", "index_put_fails", "conversation_put_fails"}
                    ELSE {"ok"})

NextSession ==
    \/ SessionTurn
    \/ NewChat
    \/ SwitchConversation
    \/ AskDelete
    \/ ConfirmDelete
    \/ CancelDelete
    \/ AskRename
    \/ SaveRename
    \/ CancelRename

SpecSession == InitSession /\ [][NextSession]_vars

(***************************************************************************)
(* build_system_prompt applied to drawn profiles                           *)
(***************************************************************************)
PromptModels ==
    {"993 Targa", "Carrera Cabriolet", "C2 Cab", "TURBO S", "Turbo Cabriolet",
     "targa turbo cab", "Carrera 4S", ""}

PromptTransmissions == {"Tiptronic", "TIPTRONIC S", "Manual", ""}

\* the profiles: none, the fields of the onboarding form, and one without a model key
PromptProfiles ==
    {NoProfile}
    \cup {[vin |-> "", year |-> "1996", model |-> m, transmission |-> tr, mileage |-> mi,
           known_issues |-> k] :
             m \in PromptModels, tr \in PromptTransmissions, mi \in {"", "80,000"},
             k \in {"", "Weeping rear main seal"}}
    \cup {[year |-> "1997", transmission |-> tr, mileage |-> "120000"] :
             tr \in PromptTransmissions}

InitPrompt ==
    /\ PinnedSession
    /\ \E profile \in PromptProfiles :
          fn = [name |-> "build_system_prompt", profile |-> profile, done |-> FALSE,
                result |-> ""]

BuildSystemPrompt ==
    /\ fn.name = "build_system_prompt"
    /\ ~fn.done
    /\ fn' = [fn EXCEPT !.done = TRUE, !.result = build_system_prompt(fn.profile)]
    /\ UNCHANGED <<envVars, sessionVars, last>>

NextPrompt == BuildSystemPrompt

SpecPrompt == InitPrompt /\ [][NextPrompt]_vars

(***************************************************************************)
(* build_context applied to drawn passage lists                            *)
(***************************************************************************)
MaxContext == 2

ContextPassages == {Passage(IndexRanking[i]) : i \in 1..MaxMatches}

ContextLists == UNION {[1..n -> ContextPassages] : n \in 0..MaxContext}

InitContext ==
    /\ PinnedSession
    /\ \E sources \in ContextLists :
          fn = [name |-> "build_context", sources |-> sources, done |-> FALSE,
                result |-> ""]

BuildContext ==
    /\ fn.name = "build_context"
    /\ ~fn.done
    /\ fn' = [fn EXCEPT !.done = TRUE, !.result = build_context(fn.sources)]
    /\ UNCHANGED <<envVars, sessionVars, last>>

NextContext == BuildContext

SpecContext == InitContext /\ [][NextContext]_vars

(***************************************************************************)
(* _embed_query applied to drawn responses of feature_extraction           *)
(***************************************************************************)
MaxDim == 2

MaxRows == 2

\* Python values: a float, a list of values, a numpy array (its ndim and what tolist()
\* gives), and a value of another type
Float(x) == [float |-> x]

List(items) == [list |-> items]

NdArray(ndim, nested) == [ndim |-> ndim, tolist |-> nested]

Other(type) == [py |-> type]

IsNdArray(v) == "ndim" \in DOMAIN v

IsList(v) == "list" \in DOMAIN v

\* _embed_query(text): emb is what the feature_extraction call does, response what it
\* returns when it returns
_embed_query(emb, response) ==
    IF EmbedException(emb) # None
    THEN [raised |-> EmbedException(emb), value |-> Other("NoneType")]
    ELSE IF IsNdArray(response)
    THEN IF response.ndim = 2
         THEN IF Len(response.tolist.list) = 0
              THEN [raised |-> "IndexError", value |-> Other("NoneType")]
              ELSE [raised |-> None, value |-> response.tolist.list[1]]
         ELSE [raised |-> None, value |-> response.tolist]
    ELSE IF IsList(response) /\ Len(response.list) > 0
    THEN IF IsList(response.list[1])
         THEN [raised |-> None,
               value  |-> IF Len(response.list) = 1 THEN response.list[1] ELSE response]
         ELSE [raised |-> None, value |-> response]
    ELSE [raised |-> "ValueError", value |-> Other("NoneType")]

\* the responses drawn: vectors of 1..MaxDim components, batches of 1..MaxRows vectors
Components == {1, 2}

Vectors(dim) == {List([i \in 1..dim |-> Float(c[i])]) : c \in [1..dim -> Components]}

Batches == UNION {{List(rows) : rows \in [1..n -> Vectors(dim)]} :
                  n \in 1..MaxRows, dim \in 1..MaxDim}

FlatVectors == UNION {Vectors(dim) : dim \in 1..MaxDim}

OtherResponses == {Other("NoneType"), Other("dict"), Other("str")}

EmbedResponses ==
    {NdArray(1, v) : v \in FlatVectors} \cup {NdArray(2, b) : b \in Batches}
    \cup FlatVectors \cup Batches \cup {List(<<>>)} \cup OtherResponses

InitEmbed ==
    /\ PinnedSession
    /\ \E emb \in EmbedKinds :
       \E response \in (IF emb = "ok" THEN EmbedResponses ELSE {Other("NoneType")}) :
          fn = [name |-> "_embed_query", emb |-> emb, response |-> response,
                done |-> FALSE, result |-> [raised |-> None, value |-> Other("NoneType")]]

EmbedQuery ==
    /\ fn.name = "_embed_query"
    /\ ~fn.done
    /\ fn' = [fn EXCEPT !.done = TRUE, !.result = _embed_query(fn.emb, fn.response)]
    /\ UNCHANGED <<envVars, sessionVars, last>>

NextEmbed == EmbedQuery

SpecEmbed == InitEmbed /\ [][NextEmbed]_vars

(***************************************************************************)
(* Car profile: session start, onboarding form, edit form                  *)
(* (src/ui/app.py, src/api/auth.py)                                        *)
(***************************************************************************)
\* load_user_profile: None when there is no object or the get raises
load_user_profile(stored, get_ok) == IF get_ok THEN stored ELSE NoProfile

\* save_user_profile: the put raises or replaces the object
save_user_profile(stored, profile, put_ok) ==
    IF put_ok THEN [raised |-> None, stored |-> profile]
    ELSE [raised |-> "ClientError", stored |-> stored]

\* what the user enters in a form
FormVins == {"", "WP0CB2960VS320001"}

FormYears == {"", "1996"}

FormModels == {"", "Targa"}

FormTransmissions == {"Tiptronic"}

FormMileages == {" 80,000 "}

FormIssues == {""}

ProfileForms ==
    [vin : FormVins, year : FormYears, model : FormModels,
     transmission : FormTransmissions, mileage : FormMileages, known_issues : FormIssues]

\* decode_vin: None, or the fields of the vPIC answer (year is never empty)
NoDecoding == [failed |-> TRUE]

VinDecodings == {NoDecoding, [year |-> "1997", model |-> "911"],
                 [year |-> "1997", model |-> ""]}

\* year and model of the onboarding form after the VIN lookup
OnboardingYear(form, decoded) ==
    IF form.vin # "" /\ Len(form.vin) = 17 /\ decoded # NoDecoding
       /\ form.year = "" /\ decoded.year # ""
    THEN decoded.year ELSE form.year

OnboardingModel(form, decoded) ==
    IF form.vin # "" /\ Len(form.vin) = 17 /\ decoded # NoDecoding
       /\ form.model = "" /\ decoded.model # ""
    THEN decoded.model ELSE form.model

\* the profile a form saves
FormProfile(form, year, model) ==
    [vin          |-> Strip(form.vin),
     year         |-> year,
     model        |-> model,
     transmission |-> form.transmission,
     mileage      |-> Strip(form.mileage),
     known_issues |-> Strip(form.known_issues)]

\* a new session of the user: the profile and the index are loaded, the rest is initial
StartSession ==
    /\ mode = "profile"
    /\ \E profile_ok \in BOOLEAN, index_ok \in BOOLEAN :
          /\ car_profile' = load_user_profile(s3_profile, profile_ok)
          /\ conv_index' = IF index_ok THEN s3_index ELSE <<>>
    /\ show_edit_profile' = FALSE
    /\ current_conv_id' = None
    /\ messages' = <<>>
    /\ confirm_delete' = None
    /\ editing_conv_id' = None
    /\ UNCHANGED <<mode, api_key, processVars, other_session, s3_profile, s3_index, s3_convs, s3_images, uuid_ctr,
                   clock, last, fn>>

\* _show_onboarding, "Save & start chatting" pressed
SubmitOnboarding ==
    /\ mode = "profile"
    /\ car_profile = NoProfile
    /\ \E form \in ProfileForms :
       \E decoded \in Issued(VinDecodings, form.vin # "" /\ Len(form.vin) = 17),
          put_ok \in BOOLEAN :
          LET year  == OnboardingYear(form, decoded)
              model == OnboardingModel(form, decoded)
              saved == save_user_profile(s3_profile, FormProfile(form, year, model), put_ok)
          IN  IF year = "" \/ model = ""
              THEN UNCHANGED <<car_profile, s3_profile>>
              ELSE /\ s3_profile' = saved.stored
                   /\ car_profile' = IF saved.raised = None
                                     THEN FormProfile(form, year, model) ELSE car_profile
    /\ UNCHANGED <<mode, api_key, processVars, other_session, show_edit_profile, sessionVars, last, fn>>

\* sidebar button "Edit car profile"
ToggleEditProfile ==
    /\ mode = "profile"
    /\ car_profile # NoProfile
    /\ show_edit_profile' = ~show_edit_profile
    /\ UNCHANGED <<mode, api_key, processVars, other_session, car_profile, s3_profile, sessionVars, last, fn>>

\* _show_edit_profile, "Save changes" pressed
SaveEditProfile ==
    /\ mode = "profile"
    /\ car_profile # NoProfile
    /\ show_edit_profile
    /\ \E form \in ProfileForms, put_ok \in BOOLEAN :
          LET updated == FormProfile(form, form.year, form.model)
              saved   == save_user_profile(s3_profile, updated, put_ok)
          IN  /\ s3_profile' = saved.stored
              /\ IF saved.raised = None
                 THEN car_profile' = updated /\ show_edit_profile' = FALSE
                 ELSE UNCHANGED <<car_profile, show_edit_profile>>
    /\ UNCHANGED <<mode, api_key, processVars, other_session, sessionVars, last, fn>>

\* _show_edit_profile, "Cancel" pressed
CancelEditProfile ==
    /\ mode = "profile"
    /\ car_profile # NoProfile
    /\ show_edit_profile
    /\ show_edit_profile' = FALSE
    /\ UNCHANGED <<mode, api_key, processVars, other_session, car_profile, s3_profile, sessionVars, last, fn>>

\* a chat turn of the session
ProfileTurn ==
    /\ mode = "profile"
    /\ clock <= MaxSessionTurns
    /\ ChatTurnWith({"Should I just replace the part?"},
                    {LlmOutcome("text", "replace rear main seal 993")},
                    {"ok"},
                    {Query(Take(IndexRanking, 1), FALSE)},
                    {Stream(<<"Order 999.113.426.41.">>, FALSE)},
                    {LlmOutcome("text", "Replacing the seal")},
                    {"ok"})

InitProfile ==
    /\ mode = "profile"
    /\ api_key = "sk-ant-api03-test"
    /\ s3_profile \in {NoProfile, Profile96}
    /\ car_profile \in {load_user_profile(s3_profile, ok) : ok \in BOOLEAN}
    /\ show_edit_profile = FALSE
    /\ ColdProcess
    /\ other_session = NoSession
    /\ s3_convs = SessionConversations
    /\ s3_index = SessionIndex
    /\ s3_images = {IMAGE_1, IMAGE_3}
    /\ conv_index \in {s3_index, <<>>}
    /\ current_conv_id = None
    /\ messages = <<>>
    /\ confirm_delete = None
    /\ editing_conv_id = None
    /\ uuid_ctr = 0
    /\ clock = 1
    /\ last = NoTurn
    /\ fn = NoCall

NextProfile ==
    \/ StartSession
    \/ SubmitOnboarding
    \/ ToggleEditProfile
    \/ SaveEditProfile
    \/ CancelEditProfile
    \/ ProfileTurn

SpecProfile == InitProfile /\ [][NextProfile]_vars

(***************************************************************************)
(* Threads of one process in search(): _get_index, _get_hf_client          *)
(* (src/api/chat.py).  PINECONE_API_KEY is set.                            *)
(***************************************************************************)
MaxThreads == 2

Threads == 1..MaxThreads

\* a thread that has not called search yet
IdleRequest == [fn |-> "idle", at |-> "", made |-> NO_INSTANCE,
                index |-> NO_INSTANCE, client |-> NO_INSTANCE]

\* the global a getter reads and writes
GlobalOf(getter) == IF getter = "_get_index" THEN _index ELSE _hf_client

GlobalName(getter) == IF getter = "_get_index" THEN "_index" ELSE "_hf_client"

Getters == {"_get_index", "_get_hf_client"}

\* search(query) is called on thread t: it enters _get_index
StartRequest(t) ==
    /\ mode = "requests"
    /\ requests[t].fn = "idle"
    /\ requests' = [requests EXCEPT ![t] = [@ EXCEPT !.fn = "_get_index", !.at = "test"]]
    /\ UNCHANGED <<_index, _hf_client, constructed>>
    /\ UNCHANGED <<mode, api_key, car_profile, show_edit_profile, s3_profile,
                   other_session, sessionVars, last, fn>>

\* if <global> is None:
TestGlobal(t) ==
    /\ mode = "requests"
    /\ requests[t].fn \in Getters
    /\ requests[t].at = "test"
    /\ requests' = [requests EXCEPT ![t] =
                      [@ EXCEPT !.at = IF GlobalOf(requests[t].fn) = NO_INSTANCE
                                       THEN "construct" ELSE "return"]]
    /\ UNCHANGED <<_index, _hf_client, constructed>>
    /\ UNCHANGED <<mode, api_key, car_profile, show_edit_profile, s3_profile,
                   other_session, sessionVars, last, fn>>

\* Pinecone(api_key=api_key).Index(INDEX_NAME), InferenceClient(token=api_key): a new
\* instance, numbered in the order of construction
Construct(t) ==
    /\ mode = "requests"
    /\ requests[t].fn \in Getters
    /\ requests[t].at = "construct"
    /\ LET g == GlobalName(requests[t].fn)
       IN  /\ constructed' = [constructed EXCEPT ![g] = @ + 1]
           /\ requests' = [requests EXCEPT ![t] =
                             [@ EXCEPT !.made = constructed[g] + 1, !.at = "store"]]
    /\ UNCHANGED <<_index, _hf_client>>
    /\ UNCHANGED <<mode, api_key, car_profile, show_edit_profile, s3_profile,
                   other_session, sessionVars, last, fn>>

\* <global> = the instance constructed
StoreGlobal(t) ==
    /\ mode = "requests"
    /\ requests[t].fn \in Getters
    /\ requests[t].at = "store"
    /\ IF requests[t].fn = "_get_index"
       THEN _index' = requests[t].made /\ UNCHANGED _hf_client
       ELSE _hf_client' = requests[t].made /\ UNCHANGED _index
    /\ requests' = [requests EXCEPT ![t] = [@ EXCEPT !.at = "return"]]
    /\ UNCHANGED constructed
    /\ UNCHANGED <<mode, api_key, car_profile, show_edit_profile, s3_profile,
                   other_session, sessionVars, last, fn>>

\* return <global>: the caller gets what the global holds now; search goes on to
\* _embed_query and _get_hf_client, _embed_query to the two calls
ReturnGlobal(t) ==
    /\ mode = "requests"
    /\ requests[t].fn \in Getters
    /\ requests[t].at = "return"
    /\ requests' = [requests EXCEPT ![t] =
                      IF requests[t].fn = "_get_index"
                      THEN [@ EXCEPT !.index = _index, !.fn = "_get_hf_client",
                                     !.at = "test", !.made = NO_INSTANCE]
                      ELSE [@ EXCEPT !.client = _hf_client, !.fn = "calls",
                                     !.at = "", !.made = NO_INSTANCE]]
    /\ UNCHANGED <<_index, _hf_client, constructed>>
    /\ UNCHANGED <<mode, api_key, car_profile, show_edit_profile, s3_profile,
                   other_session, sessionVars, last, fn>>

\* client.feature_extraction(...) and index.query(...) on the handles obtained
IssueCalls(t) ==
    /\ mode = "requests"
    /\ requests[t].fn = "calls"
    /\ requests' = [requests EXCEPT ![t] = [@ EXCEPT !.fn = "done"]]
    /\ UNCHANGED <<_index, _hf_client, constructed>>
    /\ UNCHANGED <<mode, api_key, car_profile, show_edit_profile, s3_profile,
                   other_session, sessionVars, last, fn>>

InitLazy ==
    /\ mode = "requests"
    /\ api_key = ""
    /\ car_profile = NoProfile
    /\ show_edit_profile = FALSE
    /\ s3_profile = NoProfile
    /\ _index = NO_INSTANCE
    /\ _hf_client = NO_INSTANCE
    /\ constructed = [g \in {"_index", "_hf_client"} |-> 0]
    /\ requests = [t \in Threads |-> IdleRequest]
    /\ other_session = NoSession
    /\ s3_convs = [id \in {STORED_ID} |->
                      ConversationObject(STORED_ID, StoredConversation(MaxStored))]
    /\ s3_index = StoredIndex
    /\ conv_index = s3_index
    /\ current_conv_id = None
    /\ messages = <<>>
    /\ confirm_delete = None
    /\ editing_conv_id = None
    /\ s3_images = {}
    /\ uuid_ctr = 0
    /\ clock = 1
    /\ last = NoTurn
    /\ fn = NoCall

NextLazy ==
    \/ \E t \in Threads : StartRequest(t)
    \/ \E t \in Threads : TestGlobal(t)
    \/ \E t \in Threads : Construct(t)
    \/ \E t \in Threads : StoreGlobal(t)
    \/ \E t \in Threads : ReturnGlobal(t)
    \/ \E t \in Threads : IssueCalls(t)

SpecLazy == InitLazy /\ [][NextLazy]_vars

(***************************************************************************)
(* Two sessions of one user over one store (src/ui/app.py).  The variables *)
(* of the session hold the session whose script runs next.                 *)
(***************************************************************************)
MaxPeerTurns == 2

\* the session state a script run reads and writes
SessionState(msgs, index, current, confirming, editing) ==
    [messages |-> msgs, conv_index |-> index, current_conv_id |-> current,
     confirm_delete |-> confirming, editing_conv_id |-> editing]

\* both sessions have started: each loaded the index into its own copy
InitTwoSessions ==
    /\ mode = "two_sessions"
    /\ api_key = "sk-ant-api03-test"
    /\ car_profile = Profile96
    /\ show_edit_profile = FALSE
    /\ s3_profile = car_profile
    /\ ColdProcess
    /\ s3_convs = SessionConversations
    /\ s3_index = SessionIndex
    /\ s3_images = {IMAGE_1, IMAGE_3}
    /\ conv_index = s3_index
    /\ current_conv_id = None
    /\ messages = <<>>
    /\ confirm_delete = None
    /\ editing_conv_id = None
    /\ other_session = SessionState(<<>>, s3_index, None, None, None)
    /\ uuid_ctr = 0
    /\ clock = 1
    /\ last = NoTurn
    /\ fn = NoCall

\* the next script run is one of the other session
OtherSessionRuns ==
    /\ mode = "two_sessions"
    /\ other_session' = SessionState(messages, conv_index, current_conv_id,
                                     confirm_delete, editing_conv_id)
    /\ messages' = other_session.messages
    /\ conv_index' = other_session.conv_index
    /\ current_conv_id' = other_session.current_conv_id
    /\ confirm_delete' = other_session.confirm_delete
    /\ editing_conv_id' = other_session.editing_conv_id
    /\ UNCHANGED <<mode, api_key, car_profile, show_edit_profile, s3_profile, processVars,
                   s3_index, s3_convs, s3_images, uuid_ctr, clock, last, fn>>

\* a chat turn of the session that runs
PeerTurn ==
    /\ mode = "two_sessions"
    /\ clock <= MaxPeerTurns
    /\ ChatTurnWith({"Should I just replace the part?"},
                    {LlmOutcome("text", "replace rear main seal 993")},
                    {"ok"},
                    {Query(Take(IndexRanking, 1), FALSE)},
                    {Stream(<<"Order 999.113.426.41.">>, FALSE)},
                    {LlmOutcome("text", "Replacing the seal")},
                    {"ok"})

NextTwoSessions ==
    \/ OtherSessionRuns
    \/ PeerTurn
    \/ NewChat
    \/ SwitchConversation
    \/ AskDelete
    \/ ConfirmDelete
    \/ CancelDelete

SpecTwoSessions == InitTwoSessions /\ [][NextTwoSessions]_vars

(***************************************************************************)
(* A session on a stored conversation longer than the history window       *)
(***************************************************************************)
MaxWindowTurns == 2

\* the session has started; the store holds a conversation of MaxStored turns
InitWindow ==
    /\ mode = "long_conversation"
    /\ api_key = "sk-ant-api03-test"
    /\ car_profile = Profile96
    /\ show_edit_profile = FALSE
    /\ s3_profile = car_profile
    /\ ColdProcess
    /\ other_session = NoSession
    /\ s3_convs = [id \in {STORED_ID} |->
                      ConversationObject(STORED_ID, StoredConversation(MaxStored))]
    /\ s3_index = StoredIndex
    /\ s3_images = {}
    /\ conv_index = s3_index
    /\ current_conv_id = None
    /\ messages = <<>>
    /\ confirm_delete = None
    /\ editing_conv_id = None
    /\ uuid_ctr = 0
    /\ clock = 1
    /\ last = NoTurn
    /\ fn = NoCall

\* a chat turn: the embedding call, the index query or the stream can fail
WindowTurn ==
    /\ mode = "long_conversation"
    /\ clock <= MaxWindowTurns
    /\ ChatTurnWith({"Should I just replace the part?"},
                    {LlmOutcome("text", "replace rear main seal 993")},
                    {"ok", "error"},
                    {Query(<<>>, TRUE), Query(Take(IndexRanking, 1), FALSE)},
                    {Stream(<<"Order 999.113.426.41.">>, FALSE), Stream(<<"The seal">>, TRUE)},
                    {LlmOutcome("text", "Replacing the seal")},
                    {"ok"})

NextWindow ==
    \/ WindowTurn
    \/ NewChat
    \/ SwitchConversation

SpecWindow == InitWindow /\ [][NextWindow]_vars

(***************************************************************************)
(* Properties                                                              *)
(***************************************************************************)
AnswerKinds == {"ui", "ask", "ask_stream"}

IsRewriteCall(c) == c.call = "messages.create" /\ c.model = REWRITE_MODEL

\* the elements of a set of indices, ascending
Ascending(K) ==
    [n \in 1..Cardinality(K) |-> CHOOSE i \in K : Cardinality({j \in K : j <= i}) = n]

\* C1: in every answer path (ask, ask_stream, the UI chat turn), a turn with a missing
\* or placeholder language-model key ends with the configuration message and has
\* issued no query-rewrite call, no embedding call and no index query.
C1_KeyCheckBeforeRetrieval ==
    (last.kind \in AnswerKinds /\ KeyMissing(last.key))
        => (last.outcome = "config_message" /\ last.calls = <<>>)

\* C2: rewrite_follow_up never raises: for every prompt, non-empty history and outcome
\* of the language-model call it returns the raw prompt or an accepted rewrite (the
\* stripped text of the response, non-empty and under 500 characters).
C2_RewriteNeverRaises ==
    (fn.name = "rewrite_follow_up" /\ fn.done /\ Len(fn.history) > 0)
        => /\ fn.result.raised = None
           /\ \/ fn.result.value = fn.prompt
              \/ /\ fn.key # ""
                 /\ fn.llm.kind = "text"
                 /\ fn.result.value = Strip(fn.llm.text)
                 /\ fn.result.value # ""
                 /\ Len(fn.result.value) < 500

\* C2 witness: a response without content (malformed) on a non-empty history: the call
\* was issued and the prompt came back
C2_Witness ==
    /\ fn.name = "rewrite_follow_up" /\ fn.done
    /\ Len(fn.history) > 0
    /\ fn.llm.kind = "empty_content"
    /\ Len(fn.result.calls) = 1
    /\ fn.result.value = fn.prompt

\* C3: with an empty history the rewriter returns the prompt and issues no
\* language-model call, so the first question of a conversation is searched verbatim:
\* the turn holds no rewriting call, and its embedding call and index query are on the
\* prompt itself.
C3_FirstQuestionVerbatim ==
    (last.kind \in AnswerKinds /\ last.history = <<>>)
        => /\ \A i \in DOMAIN last.calls : ~IsRewriteCall(last.calls[i])
           /\ \A i \in DOMAIN last.calls :
                 /\ last.calls[i].call = "feature_extraction"
                       => last.calls[i].text = last.prompt
                 /\ last.calls[i].call = "index.query"
                       => last.calls[i].vector = Embedding(last.prompt)
           /\ last.search_query \in {"", last.prompt}

\* C3 witness: a first question of a UI conversation, with a usable key, answered
C3_Witness ==
    /\ last.kind = "ui" /\ last.history = <<>>
    /\ ~KeyMissing(last.key)
    /\ last.outcome = "answered"
    /\ last.search_query = last.prompt
    /\ \E i \in DOMAIN last.calls : last.calls[i].call = "index.query"

\* C4: when the language-model call returns text t, rewrite_follow_up returns the
\* stripped t iff it is non-empty and shorter than 500 characters; for an empty (or
\* white-space only) result and for one of 500 or more characters it returns the raw
\* prompt.
C4_RewriteAcceptance ==
    (fn.name = "rewrite_follow_up" /\ fn.done /\ Len(fn.history) > 0 /\ fn.key # ""
     /\ fn.llm.kind = "text")
        => LET t == Strip(fn.llm.text)
               accept == t # "" /\ Len(t) < 500
           IN  /\ fn.result.value = t <=> accept
               /\ ~accept => fn.result.value = fn.prompt

\* C4 witness: a rewrite of exactly 500 characters between white space is refused
C4_Witness ==
    /\ fn.name = "rewrite_follow_up" /\ fn.done
    /\ Len(fn.history) > 0 /\ fn.key # "" /\ fn.llm.kind = "text"
    /\ Len(fn.llm.text) > 500
    /\ Len(Strip(fn.llm.text)) = 500
    /\ fn.result.value = fn.prompt

\* the passages of sources at the positions K, in retrieval order
PassagesAt(sources, K) == [n \in 1..Cardinality(K) |-> sources[Ascending(K)[n]]]

\* position i holds the first occurrence of a URL
FirstOfUrl(sources, i) ==
    /\ sources[i].url # ""
    /\ \A j \in 1..(i - 1) : sources[j].url # sources[i].url

\* the citation block of an answer path over the cited passages
CitationBlock(kind, cited) ==
    IF Len(cited) = 0 THEN ""
    ELSE IF kind = "ui"
    THEN "\n\n---\n**Sources**\n"
         \o Join("\n", [n \in 1..Len(cited) |->
                "- [" \o Take(cited[n].title, 60) \o "](" \o cited[n].url \o ") *("
                \o cited[n].source \o ")*"])
    ELSE "\n\n~~~~ Sources:\n"
         \o Join("\n", [n \in 1..Len(cited) |->
                "  - " \o Take(cited[n].title, 60) \o " ~~~ " \o cited[n].url])

\* C5 as stated: the citation block lists, in retrieval order, the first occurrence of
\* each distinct URL among all retrieved passages, limited to the first 5 of these (so
\* exactly 5 citations when the list holds at least 5 distinct URLs).
C5_FirstFiveDistinct ==
    (last.kind \in AnswerKinds /\ last.outcome = "answered")
        => LET firsts == {i \in 1..Len(last.sources) : FirstOfUrl(last.sources, i)}
               cited  == Take(PassagesAt(last.sources, firsts), 5)
           IN  last.source_block = CitationBlock(last.kind, cited)

\* C5 amended: the citation block lists, in retrieval order, the first occurrence of
\* each distinct non-empty URL among the first 5 retrieved passages: at most 5
\* citations, fewer when passages of the top 5 share a URL or have none.  The block
\* follows the answer text in what the path returns.
C5_DistinctAmongTopFive ==
    (last.kind \in AnswerKinds /\ last.outcome = "answered")
        => LET top    == 1..Min(5, Len(last.sources))
               firsts == {i \in top : FirstOfUrl(last.sources, i)}
               cited  == PassagesAt(last.sources, firsts)
           IN  /\ last.source_block = CitationBlock(last.kind, cited)
               /\ last.result = last.response \o last.source_block \o last.parts_block

\* C5 witness: the retrieved list holds 5 distinct URLs, the top 5 passages hold 3
C5_Witness ==
    /\ last.kind \in AnswerKinds /\ last.outcome = "answered"
    /\ Cardinality({last.sources[i].url : i \in 1..Len(last.sources)} \ {""}) >= 5
    /\ Cardinality({i \in 1..Min(5, Len(last.sources)) : FirstOfUrl(last.sources, i)}) = 3
    /\ last.source_block # ""

\* C6: in the UI chat turn and in ask, the part numbers that receive a link entry are
\* the part numbers of the model's answer text alone, never one that occurs only in
\* the citation block or in a passage.
C6_PartsFromAnswerOnly ==
    (last.kind \in {"ui", "ask"} /\ last.outcome = "answered")
        => Range(FindAll(last.parts_block))
              = {Replace(pn, "-", ".") : pn \in Range(FindAll(last.response))}

\* C7: a successful UI chat turn persists, as the last turn of the conversation, an
\* assistant turn whose content is the streamed answer text, then the citation block,
\* then the parts-link block.
C7_PersistedAssistantTurn ==
    [][(clock' # clock /\ last'.kind = "ui" /\ last'.outcome = "answered")
        => /\ last'.conv_id \in DOMAIN s3_convs'
           /\ LET persisted == s3_convs'[last'.conv_id].messages
                  answer    == persisted[Len(persisted)]
              IN  /\ Len(persisted) >= 2
                  /\ answer.role = "assistant"
                  /\ \E part_numbers \in extract_part_numbers(last'.response) :
                        answer.content = last'.response
                                         \o UiSourceBlock(last'.sources)
                                         \o generate_parts_links(part_numbers)
                  /\ persisted[Len(persisted) - 1] = Turn("user", last'.prompt)]_vars

\* C7 witness: a persisted answer with a citation block and a parts-link block
C7_Witness ==
    /\ last.kind = "ui" /\ last.outcome = "answered"
    /\ last.source_block # "" /\ last.parts_block # ""
    /\ last.conv_id \in DOMAIN s3_convs
    /\ s3_convs[last.conv_id].messages[Len(s3_convs[last.conv_id].messages)].content
          = last.result

RetrievalErrors == {"RuntimeError", "HfHubHTTPError", "PineconeException", "APIError"}

\* C8: a UI chat turn in which the embedding call, the index query or the answer
\* stream fails issues no put and no delete: the persisted index and every persisted
\* conversation are what they were before the turn.
C8_FailedTurnLeavesStore ==
    [][(clock' # clock /\ last'.kind = "ui" /\ last'.error \in RetrievalErrors)
        => (s3_index' = s3_index /\ s3_convs' = s3_convs /\ last'.puts = <<>>)]_vars

\* C8 witness: the stream failed in a turn of a stored conversation
C8_Witness ==
    /\ last.kind = "ui" /\ last.outcome = "raised" /\ last.error = "APIError"
    /\ current_conv_id = STORED_ID
    /\ Len(last.history) > 0
    /\ \E i \in DOMAIN last.calls : last.calls[i].call = "messages.stream"

\* C9: the messages a UI chat turn sends to the model are the at most 10 most recent
\* turns before the current question, in order, then exactly one message, the
\* retrieval-augmented user message of the current question; the raw question turn is
\* not among the prior turns.
C9_HistoryWindow ==
    (last.kind = "ui" /\ Len(last.llm_messages) > 0)
        => LET n == Len(last.history)
               k == Min(10, n)
               sent == last.llm_messages
           IN  /\ Len(sent) = k + 1
               /\ \A i \in 1..k :
                     sent[i] = Turn(last.history[n - k + i].role,
                                    last.history[n - k + i].content)
               /\ sent[k + 1] = Turn("user",
                                     UiUserMessage(car_description(car_profile), last.prompt,
                                                   build_context(last.sources)))

\* C9 witness: a conversation of more than 10 turns, 11 messages sent
C9_Witness ==
    /\ last.kind = "ui" /\ Len(last.history) > 10
    /\ Len(last.llm_messages) = 11
    /\ last.llm_messages[1] = Turn(last.history[Len(last.history) - 9].role,
                                   last.history[Len(last.history) - 9].content)

\* one entry of the parts-link block
PartsEntry(number) ==
    "- **" \o number \o "**: "
    \o "[Pelican Parts](https://www.pelicanparts.com/cgi-bin/smart_search.cgi?keywords="
    \o number \o ") ~~ [FCP Euro](https://www.fcpeuro.com/parts?keyword="
    \o number \o ") ~~ [Design 911](https://www.design911.co.uk/search/?q="
    \o number \o ")"

\* C10: generate_parts_links emits one entry per distinct dot-normalized number, in
\* order of first occurrence in the list, each with the three supplier links in the
\* order Pelican Parts, FCP Euro, Design 911; the empty list gives the empty string.
C10_PartsLinks ==
    (fn.name = "generate_parts_links" /\ fn.done)
        => LET numbers == [i \in 1..Len(fn.part_numbers) |->
                              Replace(fn.part_numbers[i], "-", ".")]
               firsts  == {i \in 1..Len(numbers) :
                              \A j \in 1..(i - 1) : numbers[j] # numbers[i]}
               entries == [n \in 1..Cardinality(firsts) |->
                              PartsEntry(numbers[Ascending(firsts)[n]])]
           IN  fn.result = IF Len(numbers) = 0 THEN ""
                           ELSE Join("\n", <<"\n\n---\n**~~~~ Order Parts**">> \o entries)

\* C10 witness: a dash spelling after the dot spelling of the same number, and a
\* second number: two entries
C10_Witness ==
    /\ fn.name = "generate_parts_links" /\ fn.done
    /\ Len(fn.part_numbers) = 3
    /\ fn.part_numbers[1] = "993.116.015.04"
    /\ fn.part_numbers[2] = "993-116-015-04"
    /\ fn.part_numbers[3] = "999-113.426-41"
    /\ fn.result = Join("\n", <<"\n\n---\n**~~~~ Order Parts**",
                                 PartsEntry("993.116.015.04"), PartsEntry("999.113.426.41")>>)

\* the index given to call k of delete_conversation
DeleteInput(k) == IF k = 1 THEN fn.index ELSE fn.calls[k - 1].index

HasId(index, id) == \E i \in 1..Len(index) : index[i].id = id

\* index with the entry at position p taken out
DropAt(index, p) == [i \in 1..(Len(index) - 1) |-> IF i < p THEN index[i] ELSE index[i + 1]]

\* C11: delete_conversation(id, index) returns and persists an index without an entry
\* for id: one entry shorter, the others unchanged and in order, when id is present;
\* the input itself, and no error, when id is absent; deleting again returns what
\* deleting once returned.  (The one error that reaches the caller is a failure of the
\* put of the index, which is not caught.)
C11_DeleteRemovesEntry ==
    fn.name = "delete_conversation"
        => \A k \in 1..Len(fn.calls) :
            LET input == DeleteInput(k)
                r     == fn.calls[k]
            IN  /\ r.raised # None <=> r.faults.index_put_fails
                /\ r.raised = None =>
                    /\ ~HasId(r.index, fn.conv_id)
                    /\ r.store.index = r.index
                    /\ HasId(input, fn.conv_id) =>
                          /\ Len(r.index) = Len(input) - 1
                          /\ \E p \in 1..Len(input) :
                                input[p].id = fn.conv_id /\ r.index = DropAt(input, p)
                    /\ ~HasId(input, fn.conv_id) => r.index = input
                    /\ k = 2 => r.index = fn.calls[1].index

\* C11 witness: the middle entry of three was deleted, and deleted again
C11_Witness ==
    /\ fn.name = "delete_conversation"
    /\ Len(fn.index) = 3 /\ fn.index[2].id = fn.conv_id
    /\ Len(fn.calls) = 2
    /\ fn.calls[2].raised = None
    /\ fn.calls[1].index = <<fn.index[1], fn.index[3]>>
    /\ fn.calls[2].index = fn.calls[1].index

\* a failure of a step that delete_conversation treats as secondary
SecondaryFailure(f) ==
    f.client_fails \/ f.load_fails \/ f.bad_images # {} \/ f.object_fails

\* C18: delete_conversation removes the index entry and persists the updated index
\* even when the load of the conversation, the delete of an image or the delete of the
\* conversation object fails, and raises none of these failures.
C18_DeleteSurvivesFailures ==
    fn.name = "delete_conversation"
        => \A k \in 1..Len(fn.calls) :
            LET r == fn.calls[k]
            IN  (SecondaryFailure(r.faults) /\ ~r.faults.index_put_fails)
                    => /\ r.raised = None
                       /\ r.index = WithoutId(DeleteInput(k), fn.conv_id)
                       /\ r.store.index = r.index
                       /\ ~HasId(r.store.index, fn.conv_id)

\* C18 witness: the delete of an image and of the conversation object failed, the
\* object is still stored and its index entry is gone
C18_Witness ==
    /\ fn.name = "delete_conversation"
    /\ Len(fn.calls) = 1
    /\ HasId(fn.index, fn.conv_id)
    /\ fn.calls[1].faults = DeleteFault(FALSE, FALSE, {IMAGE_2}, TRUE, FALSE)
    /\ fn.conv_id \in DOMAIN fn.calls[1].store.convs
    /\ fn.calls[1].store.images = {IMAGE_2, IMAGE_3}
    /\ ~HasId(fn.calls[1].store.index, fn.conv_id)

\* C12: save_conversation followed by load_conversation with the same id and user id,
\* with no other write to that key in between, returns the saved turns, in order, with
\* their role and content.  (A get that the store fails makes load_conversation return
\* None.)
C12_SaveLoadRoundTrip ==
    (fn.name = "store" /\ fn.step = "loaded")
        => /\ fn.loaded.loaded <=> fn.get_ok
           /\ fn.get_ok =>
                /\ Len(fn.loaded.messages) = Len(fn.messages)
                /\ \A i \in 1..Len(fn.messages) :
                      /\ fn.loaded.messages[i].role = fn.messages[i].role
                      /\ fn.loaded.messages[i].content = fn.messages[i].content
                      /\ fn.loaded.messages[i] = fn.messages[i]

\* C12 witness: two turns saved for a user over an older object, another user's
\* conversation of the same id written, the two turns loaded back
C12_Witness ==
    /\ fn.name = "store" /\ fn.step = "loaded" /\ fn.get_ok
    /\ fn.user_id = "3f2a9c1e" /\ fn.conv_id = STORED_ID
    /\ ConversationKey(STORED_ID, "77d0b4aa") \in DOMAIN fn.bucket
    /\ Len(fn.messages) = 2
    /\ fn.loaded.messages = fn.messages
    /\ fn.loaded.messages # OldConversation

IsPrefix(a, b) == Len(a) <= Len(b) /\ \A i \in 1..Len(a) : a[i] = b[i]

\* C13: within a session, whatever the UI operations and the outcomes of the store
\* calls, the turns persisted for a conversation id are only appended to: the turns
\* persisted before a step are a prefix of the turns persisted after it, and a
\* successful chat turn on a persisted conversation adds the question and the answer.
C13_PersistedTurnsOnlyAppended ==
    [][/\ \A id \in DOMAIN s3_convs \cap DOMAIN s3_convs' :
            IsPrefix(s3_convs[id].messages, s3_convs'[id].messages)
       /\ (clock' # clock /\ last'.outcome = "answered" /\ last'.conv_id \in DOMAIN s3_convs)
            => LET before == s3_convs[last'.conv_id].messages
                   after  == s3_convs'[last'.conv_id].messages
               IN  /\ Len(after) >= Len(before) + 2
                   /\ after[Len(after) - 1] = Turn("user", last'.prompt)
                   /\ after[Len(after)] = Turn("assistant", last'.result)]_vars

\* C13 witness: the stored conversation, switched to and answered: its two turns, then
\* the question and the answer
C13_Witness ==
    /\ mode \in {"session", "faulty_session"}
    /\ last.outcome = "answered" /\ last.conv_id = STORED_ID
    /\ STORED_ID \in DOMAIN s3_convs
    /\ Len(s3_convs[STORED_ID].messages) = 4
    /\ SubSeq(s3_convs[STORED_ID].messages, 1, 2) = SessionConversations[STORED_ID].messages

\* C14: in a session whose store calls succeed, after any sequence of UI operations the
\* persisted index holds exactly one entry for every conversation that has a persisted
\* conversation object, and no two entries share an id.
C14_OneEntryPerConversation ==
    mode = "session"
        => /\ \A id \in DOMAIN s3_convs :
                Cardinality({i \in 1..Len(s3_index) : s3_index[i].id = id}) = 1
           /\ \A i, j \in 1..Len(s3_index) : s3_index[i].id = s3_index[j].id => i = j

\* C14 witness: the stored conversation was deleted, a new conversation was created by
\* a chat turn and renamed: the index names the one conversation that is stored
C14_Witness ==
    /\ mode = "session"
    /\ STORED_ID \notin DOMAIN s3_convs
    /\ last.outcome = "answered" /\ last.conv_id \in DOMAIN s3_convs
    /\ Len(s3_index) = 1 /\ s3_index[1].id = last.conv_id
    /\ s3_index[1].title = "Track car"

\* C15: a successful chat turn on an existing conversation sets updated_at of its index
\* entry to the time of the turn and persists the index, leaves created_at and title of
\* the entry and every other entry unchanged; a turn on a new conversation adds one
\* entry whose created_at equals its updated_at.
C15_IndexEntryOfTurn ==
    [][(clock' # clock /\ last'.kind = "ui" /\ last'.outcome = "answered")
        => LET id == last'.conv_id
               n  == Len(conv_index)
           IN  /\ s3_index' = conv_index'
               /\ IF current_conv_id # None
                  THEN /\ id = current_conv_id
                       /\ HasId(conv_index, id)
                       /\ Len(conv_index') = n
                       /\ \A i \in 1..n :
                            IF conv_index[i].id = id
                            THEN /\ conv_index'[i].updated_at = clock
                                 /\ conv_index'[i].created_at = conv_index[i].created_at
                                 /\ conv_index'[i].title = conv_index[i].title
                                 /\ conv_index'[i].id = id
                            ELSE conv_index'[i] = conv_index[i]
                  ELSE /\ ~HasId(conv_index, id)
                       /\ Len(conv_index') = n + 1
                       /\ SubSeq(conv_index', 1, n) = conv_index
                       /\ conv_index'[n + 1].id = id
                       /\ conv_index'[n + 1].created_at = clock
                       /\ conv_index'[n + 1].updated_at = clock]_vars

\* C15 witness: the stored conversation answered at time 1: created at 0, updated at 1
C15_Witness ==
    /\ mode \in {"session", "faulty_session"}
    /\ last.outcome = "answered" /\ last.conv_id = STORED_ID
    /\ \E i \in 1..Len(s3_index) :
          /\ s3_index[i].id = STORED_ID
          /\ s3_index[i].created_at = 0
          /\ s3_index[i].updated_at = 1

\* the first position of sub in s, 0 when s does not contain it
FirstAt(s, sub) ==
    LET at == {i \in 1..(Len(s) - Len(sub) + 1) : SubSeq(s, i, i + Len(sub) - 1) = sub}
    IN  IF at = {} THEN 0 ELSE SetMin(at)

\* the hints, in the order of the claim, by their fixed text
HintTexts ==
    <<"- Targa-specific issues (roof seal leaks, body flex, Targa top mechanism)",
      "- Cabriolet-specific issues (soft top mechanism, hydraulics, rear window)",
      "- Tiptronic-specific advice (fluid changes, shift adaptation, valve body)",
      "- Turbo-specific advice (boost control, wastegate, intercooler, K24/K16 turbos)",
      "- Mileage-appropriate maintenance (what's due at ">>

\* C16: build_system_prompt includes the Targa hint iff model contains "targa", the
\* Cabriolet hint iff model contains "cabriolet" or "cab", the Tiptronic hint iff
\* transmission contains "tiptronic", the Turbo hint iff model contains "turbo" (all
\* case-insensitive), the mileage hint iff mileage is non-empty, in that order; for an
\* absent profile it emits the generic fallback, no hint and no fact of a car.
C16_SystemPromptHints ==
    (fn.name = "build_system_prompt" /\ fn.done)
        => LET out == fn.result
               at  == [h \in 1..5 |-> FirstAt(out, HintTexts[h])]
           IN  IF fn.profile = NoProfile
               THEN /\ \A h \in 1..5 : at[h] = 0
                    /\ Contains(out, "Give general 993 advice until the owner shares their car details.")
                    /\ Contains(out, "- Porsche 911 (993)\n- No specific details provided yet.")
                    /\ ~Contains(out, "Approximately")
                    /\ ~Contains(out, "transmission")
                    /\ ~Contains(out, "Always tailor")
               ELSE LET ml == Lower(Get(fn.profile, "model", "993"))
                        tl == Lower(Get(fn.profile, "transmission", ""))
                        mi == Get(fn.profile, "mileage", "")
                    IN  /\ at[1] > 0 <=> Contains(ml, "targa")
                        /\ at[2] > 0 <=> (Contains(ml, "cabriolet") \/ Contains(ml, "cab"))
                        /\ at[3] > 0 <=> Contains(tl, "tiptronic")
                        /\ at[4] > 0 <=> Contains(ml, "turbo")
                        /\ at[5] > 0 <=> mi # ""
                        /\ mi # "" => Contains(out, HintTexts[5] \o mi \o " miles)")
                        /\ \A g, h \in 1..5 : (g < h /\ at[g] > 0 /\ at[h] > 0) => at[g] < at[h]
                        /\ ~Contains(out, "Give general 993 advice")

\* C16 witness: model "993 Targa", transmission "Tiptronic", mileage "80,000": the
\* Targa, the Tiptronic and the mileage hint, and no Turbo hint
C16_Witness ==
    /\ fn.name = "build_system_prompt" /\ fn.done
    /\ fn.profile # NoProfile
    /\ Get(fn.profile, "model", "") = "993 Targa"
    /\ Get(fn.profile, "transmission", "") = "Tiptronic"
    /\ Get(fn.profile, "mileage", "") = "80,000"
    /\ Contains(fn.result, HintTexts[1]) /\ Contains(fn.result, HintTexts[3])
    /\ Contains(fn.result, HintTexts[5] \o "80,000 miles)")
    /\ ~Contains(fn.result, HintTexts[4])

\* C17: for a passage list of length n, build_context emits n blocks numbered
\* [Source 1] .. [Source n] in input order, every two consecutive blocks are separated
\* by the fixed-width rule line, and for the empty list it returns a string that holds
\* only the rule.
C17_BlocksSeparatedByRule ==
    (fn.name = "build_context" /\ fn.done)
        => LET out  == fn.result
               n    == Len(fn.sources)
               rule == Repeat("=", 60)
               at   == [i \in 1..n |-> FirstAt(out, ContextPart(i, fn.sources[i]))]
           IN  /\ \A i \in 1..n : at[i] > 0
               /\ \A i \in 1..(n - 1) : at[i] < at[i + 1]
               /\ ~Contains(out, "[Source " \o ToString(n + 1) \o "]")
               /\ \A i \in 1..(n - 1) :
                     Contains(SubSeq(out, at[i] + Len(ContextPart(i, fn.sources[i])),
                                     at[i + 1] - 1),
                              rule)
               /\ n = 0 => (Contains(out, rule) /\ StripChars(out, {"\n", "="}) = "")

\* a flat vector of numbers: a list whose items are all floats
IsFlatVector(v) == IsList(v) /\ \A i \in 1..Len(v.list) : "float" \in DOMAIN v.list[i]

\* C19: whatever shape feature_extraction returns (1-D array, 2-D array, flat list,
\* nested list with one row, nested list with several rows), _embed_query returns one
\* flat vector of numbers, never a nested list; an empty list or a value of another type
\* raises the validation error.
C19_OneFlatVector ==
    (fn.name = "_embed_query" /\ fn.done /\ fn.emb = "ok")
        => IF \/ IsNdArray(fn.response)
              \/ IsList(fn.response) /\ Len(fn.response.list) > 0
           THEN fn.result.raised = None /\ IsFlatVector(fn.result.value)
           ELSE fn.result.raised = "ValueError"

\* a profile with a year and a model
Complete(profile) == Get(profile, "year", "") # "" /\ Get(profile, "model", "") # ""

\* C20: after any sequence of onboarding and edit-profile operations, the profile
\* persisted for the user has a non-empty year and a non-empty model, and the chat area
\* is reached only with such a profile.
C20_ProfilesComplete ==
    mode = "profile"
        => /\ s3_profile # NoProfile => Complete(s3_profile)
           /\ ChatArea => Complete(car_profile)

\* the instruction that closes the user message of ask and ask_stream
CITE_INSTRUCTION ==
    "Cite sources\nwhen referencing specific advice. If the sources are insufficient, say so."

\* C21: in every UI chat turn the user message sent to the language model contains the
\* question, the rendered context block and the instruction to cite sources or to say
\* so when the sources are insufficient, as the user message of ask and ask_stream does.
C21_UiMessageCitesSources ==
    (last.kind = "ui" /\ Len(last.llm_messages) > 0)
        => LET sent == last.llm_messages[Len(last.llm_messages)]
           IN  /\ sent.role = "user"
               /\ Contains(sent.content, "QUESTION: " \o last.prompt)
               /\ Contains(sent.content, build_context(last.sources))
               /\ Contains(sent.content, CITE_INSTRUCTION)

\* the text of s between the first before and the first after
Between(s, before, after) ==
    SubSeq(s, FirstAt(s, before) + Len(before), FirstAt(s, after) - 1)

\* a turn as the claim has it in the transcript
TranscriptLine(turn) ==
    IF turn.role = "user"
    THEN "User: " \o turn.content
         \o (IF "images" \in DOMAIN turn /\ Len(turn.images) >= 1
             THEN " [attached " \o ToString(Len(turn.images)) \o " photo(s)]" ELSE "")
    ELSE "Assistant: "
         \o (IF Len(turn.content) <= 300 THEN turn.content
             ELSE SubSeq(turn.content, 1, 300) \o "...")

\* C22: for a non-empty history of n turns, the transcript sent to the rewriting model
\* holds exactly the last min(4, n) turns in conversation order, one line each; an
\* assistant turn appears with at most 300 characters of its content (a longer one cut
\* to its first 300 characters and marked "..."), and a user turn carries the tag
\* " [attached k photo(s)]" iff it has k >= 1 images.
C22_RewriteTranscript ==
    (fn.name = "rewrite_follow_up" /\ fn.done /\ Len(fn.history) > 0 /\ fn.key # "")
        => /\ Len(fn.result.calls) = 1
           /\ LET n     == Len(fn.history)
                  k     == IF n < 4 THEN n ELSE 4
                  sent  == Between(fn.result.calls[1].content, "CONVERSATION:\n",
                                   "\n\nFOLLOW-UP QUESTION: ")
                  lines == [j \in 1..k |-> TranscriptLine(fn.history[n - k + j])]
              IN  sent = Join("\n", lines)

\* C22 witness: a history of five turns, with photos on a turn inside the window and an
\* answer of more than 300 characters: the call was issued with the cut answer
C22_Witness ==
    /\ fn.name = "rewrite_follow_up" /\ fn.done
    /\ Len(fn.history) = 5 /\ fn.key # ""
    /\ Len(fn.result.calls) = 1
    /\ \E i \in 2..5 : Len(Images(fn.history[i])) >= 1
    /\ \E i \in 2..5 : fn.history[i].role = "assistant" /\ Len(fn.history[i].content) > 300
    /\ Contains(fn.result.calls[1].content, " [attached 2 photo(s)]")
    /\ Contains(fn.result.calls[1].content, "...\nUser: ")

\* the positions of the calls of a turn to the operation named
CallsOf(turn, name) == {i \in DOMAIN turn.calls : turn.calls[i].call = name}

\* the exceptions of the embedding call
EmbeddingErrors == {"RuntimeError", "HfHubHTTPError"}

\* what a step that is a UI chat turn does with the rewriter, the search and the user
\* message; every_turn_queries: each turn issues an index query, also one whose
\* embedding call raised
RewriteThenSearch(every_turn_queries) ==
    (clock' # clock /\ last'.kind = "ui")
        => LET turn    == last'
               n       == Len(messages)
               k       == IF n < 4 THEN n ELSE 4
               queries == CallsOf(turn, "index.query")
               embeds  == CallsOf(turn, "feature_extraction")
           IN  /\ turn.history = messages
               /\ messages' \in {Append(messages, Turn("user", turn.prompt)),
                                 messages \o <<Turn("user", turn.prompt),
                                               Turn("assistant", turn.result)>>}
               /\ \A i \in DOMAIN turn.calls :
                     IsRewriteCall(turn.calls[i])
                        => /\ Between(turn.calls[i].content, "CONVERSATION:\n",
                                      "\n\nFOLLOW-UP QUESTION: ")
                                = Join("\n", [j \in 1..k |->
                                                TranscriptLine(messages[n - k + j])])
                           /\ Contains(turn.calls[i].content,
                                       "\n\nFOLLOW-UP QUESTION: " \o turn.prompt \o "\n")
               /\ Cardinality(embeds) = 1
               /\ \A i \in embeds : turn.calls[i].text = turn.search_query
               /\ IF ~every_turn_queries /\ turn.error \in EmbeddingErrors
                  THEN queries = {}
                  ELSE /\ Cardinality(queries) = 1
                       /\ \A i \in queries :
                             /\ turn.calls[i].top_k = 15
                             /\ turn.calls[i].vector = Embedding(turn.search_query)
               /\ Len(turn.llm_messages) > 0
                     => Contains(turn.llm_messages[Len(turn.llm_messages)].content,
                                 "\n\nQUESTION: " \o turn.prompt \o "\n\nFORUM KNOWLEDGE:\n")

C24_ConstructedOnce ==
    mode = "requests"
        => /\ constructed["_index"] <= 1
           /\ constructed["_hf_client"] <= 1
           /\ \A t \in DOMAIN requests :
                 /\ requests[t].index # NO_INSTANCE => requests[t].index = 1
                 /\ requests[t].client # NO_INSTANCE => requests[t].client = 1

\* the ids of the entries of an index
IdsOf(index) == {index[i].id : i \in 1..Len(index)}

\* C25 as stated: when two sessions of the user, each with its own copy of the index,
\* interleave chat turns and deletes, the persisted index holds exactly one entry for
\* every persisted conversation object and names no conversation that was deleted: no
\* write of a session removes an entry the other session created, and no deleted
\* conversation reappears.
C25_IndexSurvivesInterleaving ==
    mode = "two_sessions"
        => /\ \A id \in DOMAIN s3_convs :
                Cardinality({i \in 1..Len(s3_index) : s3_index[i].id = id}) = 1
           /\ IdsOf(s3_index) \subseteq DOMAIN s3_convs

\* C25 amended: the last write wins.  Every chat turn and every delete of a session
\* persists that session's own copy of the index, whatever the other session wrote in
\* between: no two entries of the persisted index share an id, every entry is one the
\* writing session holds, and the conversation the session wrote or deleted is,
\* respectively is not, in it.
C25_LastWriteWins ==
    [][(mode = "two_sessions" /\ s3_index' # s3_index)
        => /\ s3_index' = conv_index'
           /\ \A i, j \in 1..Len(s3_index') :
                 s3_index'[i].id = s3_index'[j].id => i = j
           /\ IF clock' # clock
              THEN /\ last'.conv_id \in IdsOf(s3_index')
                   /\ IdsOf(s3_index') = IdsOf(conv_index) \cup {last'.conv_id}
              ELSE /\ confirm_delete \notin IdsOf(s3_index')
                   /\ IdsOf(s3_index') = IdsOf(conv_index) \ {confirm_delete}]_vars

\* C25 witness: each session created a conversation; the index persisted last is that
\* of the second writer and lacks the entry of the first, whose object is stored
C25_Witness ==
    /\ mode = "two_sessions"
    /\ last.outcome = "answered"
    /\ s3_index = conv_index
    /\ other_session.current_conv_id \notin {None, STORED_ID}
    /\ other_session.current_conv_id \in DOMAIN s3_convs
    /\ other_session.current_conv_id \notin IdsOf(s3_index)
    /\ last.conv_id \in IdsOf(s3_index)

\* user and assistant turns in strict alternation, a user turn first
Alternates(turns) ==
    \A i \in 1..Len(turns) : turns[i].role = (IF i % 2 = 1 THEN "user" ELSE "assistant")

\* C26: in every reachable state of a session, also after a turn that failed in
\* retrieval, in the model stream or on the credential check, the turn list of the
\* session is a strict alternation of user and assistant turns completed by an answer,
\* and so is every persisted conversation: no unanswered user turn is left behind.
C26_TurnsAlternate ==
    mode \in {"session", "faulty_session"}
        => /\ Alternates(messages) /\ Len(messages) % 2 = 0
           /\ \A id \in DOMAIN s3_convs :
                 /\ Alternates(s3_convs[id].messages)
                 /\ Len(s3_convs[id].messages) % 2 = 0

\* C27: for every conversation reached by successful and failed chat turns, the first
\* message of the list sent to the stream call of the language model has role user,
\* also when the history is longer than the window of 10 turns.
C27_FirstMessageFromUser ==
    (last.kind = "ui" /\ Len(last.llm_messages) > 0)
        => last.llm_messages[1].role = "user"

\* C28: a failed read of the conversation index at the start of a session loses no
\* persisted entry: after every later chat turn, rename or delete of the session, every
\* entry the store held before the session and the session did not delete is in the
\* persisted index.
C28_FailedReadLosesNothing ==
    [][(mode \in {"session", "faulty_session"})
        => (\A id \in IdsOf(SessionIndex) :
               (id \in IdsOf(s3_index) /\ id \notin IdsOf(s3_index'))
                  => (confirm_delete = id /\ clock' = clock))]_vars

\* C29: in every reachable state, also when a write of the store fails or the run stops
\* between the two writes of a chat turn or between the object delete and the index
\* write of a delete, every entry of the persisted index refers to a conversation
\* object that exists in the store.
C29_IndexEntriesHaveObjects ==
    mode \in {"session", "faulty_session"}
        => \A i \in 1..Len(s3_index) : s3_index[i].id \in DOMAIN s3_convs

\* C30: for the same question, profile, retrieved passages and model output, the
\* chunks ask_stream yields, concatenated, are the string ask returns, the citation
\* block and the parts-link block included.
C30_StreamEqualsAsk ==
    (last.kind = "ask_stream" /\ last.outcome = "answered")
        => LET answer == last.response \o ApiSourceBlock(last.sources)
           IN  \E part_numbers \in extract_part_numbers(answer) :
                  Join("", last.chunks)
                     = answer \o (IF Len(part_numbers) > 0
                                  THEN generate_parts_links(part_numbers) ELSE "")

====
